---- MODULE Spec2Model ----
(***************************************************************************)
(* Model of the newsagg scraper: the orchestration cycle of                *)
(* scraper/main.py, the batch client of services/article_service.py and    *)
(* the scrapers of scraper/scrapers/.                                      *)
(***************************************************************************)
EXTENDS Integers, Sequences, FiniteSets, TLC

\* ------------------------------------------------------------------ bounds
\* scrapers in the orchestrator's list
MaxScrapers == 2
\* articles one mocked scrape() call returns
MaxArticles == 2
\* how far a response body may exceed the truncation length
MaxBodyExcess == 1
\* entries of a feed (or containers of a page) built from every kind of entry
MaxEntries == 3
\* how far a long feed may exceed the feed scrapers' limit
MaxOverflow == 1
\* largest max_articles a scraper is configured with, the default apart
MaxConfigured == 2

\* hours the clock may advance during the life of one Article
MaxTicks == 2

\* to_dict calls on one Article
MaxCalls == 2

\* the greatest --interval-minutes
MaxOverride == 2

\* scrape_all calls counted
MaxCycles == 3

\* <a> elements of an <article> element
MaxLinks == 3

\* how far a text of a page may exceed extract_content's max_chars
MaxTextExcess == 1

\* self.scrapers: the scrapers of one orchestrator, by position
Registry == [i \in 1..MaxScrapers |-> i]

\* ------------------------------------------------------------------ text
\* A Python str is a sequence of runs [c |-> character, n |-> repetitions],
\* adjacent runs holding different characters: "xxx..." is <<[x,3],[.,3]>>.
Run(c, n) == [c |-> c, n |-> n]

Rep(c, n) == IF n = 0 THEN <<>> ELSE <<Run(c, n)>>

\* s + t
Concat(s, t) ==
    IF s = <<>> THEN t
    ELSE IF t = <<>> THEN s
    ELSE IF s[Len(s)].c = t[1].c
         THEN SubSeq(s, 1, Len(s) - 1)
              \o <<Run(t[1].c, s[Len(s)].n + t[1].n)>>
              \o Tail(t)
         ELSE s \o t

RECURSIVE Str(_)
\* the str spelled by a tuple of characters
Str(chars) ==
    IF chars = <<>> THEN <<>>
    ELSE Concat(Rep(Head(chars), 1), Str(Tail(chars)))

RECURSIVE StrLen(_)
\* len(s)
StrLen(s) == IF s = <<>> THEN 0 ELSE Head(s).n + StrLen(Tail(s))

RECURSIVE Prefix(_, _)
\* s[:k]
Prefix(s, k) ==
    IF s = <<>> \/ k <= 0 THEN <<>>
    ELSE IF Head(s).n >= k THEN <<Run(Head(s).c, k)>>
    ELSE <<Head(s)>> \o Prefix(Tail(s), k - Head(s).n)

LowerChar(c) ==
    CASE c = "A" -> "a" [] c = "E" -> "e" [] c = "F" -> "f" [] c = "L" -> "l"
      [] c = "N" -> "n" [] c = "O" -> "o" [] c = "S" -> "s" [] c = "Y" -> "y"
      [] OTHER -> c

RECURSIVE Lower(_)
\* s.lower()
Lower(s) ==
    IF s = <<>> THEN <<>>
    ELSE Concat(<<Run(LowerChar(Head(s).c), Head(s).n)>>, Lower(Tail(s)))

\* ------------------------------------------------------------------ JSON
\* A decoded JSON value (or the absence of a key): t is its Python type, i an
\* int's value or a dict's size, l the elements of a list or the one str.
JMissing == [t |-> "missing", i |-> 0, l |-> <<>>]

JNull == [t |-> "null", i |-> 0, l |-> <<>>]

JInt(n) == [t |-> "int", i |-> n, l |-> <<>>]

JStr(s) == [t |-> "str", i |-> 0, l |-> <<s>>]

JList(elems) == [t |-> "list", i |-> 0, l |-> elems]

JDict(size) == [t |-> "dict", i |-> size, l |-> <<>>]

\* bool(v)
Truthy(v) ==
    CASE v.t = "int" -> v.i # 0
      [] v.t = "str" -> v.l[1] # <<>>
      [] v.t = "list" -> v.l # <<>>
      [] v.t = "dict" -> v.i # 0
      [] OTHER -> FALSE

\* len(v) is defined
Sized(v) == v.t \in {"str", "list", "dict"}

\* v[:5] is defined
Sliceable(v) == v.t \in {"str", "list"}

\* total += v is defined for an int total
Addable(v) == v.t = "int"

\* d.get(key, default), the key's value being v (JMissing: no such key)
DictGet(v, default) == IF v.t = "missing" THEN default ELSE v

\* a or b
PyOr(a, b) == IF Truthy(a) THEN a ELSE b

\* ------------------------------------------------------------------ Article
\* Article.__init__ defaults of the enrichment fields
DefaultSentiment ==
    [label |-> "neutral", score |-> 0, confidence |-> 0,
     positive_words |-> <<>>, negative_words |-> <<>>]

\* An Article as a scraper hands it over: url, content and the sentiment
\* placeholders (scores in hundredths). fetched records what extract_content
\* did for it in this cycle ("no": never called), enriched what
\* analyze_text_sentiment_and_terms returned for it (<<>>: not called).
NewArticle(url, content) ==
    [url |-> url, content |-> content,
     sentiment_label |-> DefaultSentiment.label,
     sentiment_score |-> DefaultSentiment.score,
     sentiment_confidence |-> DefaultSentiment.confidence,
     positive_words |-> DefaultSentiment.positive_words,
     negative_words |-> DefaultSentiment.negative_words,
     orig |-> content, fetched |-> "no", analyzed |-> FALSE,
     enriched |-> <<>>]

\* Article.to_dict: the wire names of the fields
to_dict(a) ==
    [url |-> a.url, content |-> a.content,
     sentimentLabel |-> a.sentiment_label,
     sentimentScore |-> a.sentiment_score,
     sentimentConfidence |-> a.sentiment_confidence,
     positiveWords |-> a.positive_words,
     negativeWords |-> a.negative_words]

\* ------------------------------------------------------------------ batch client
\* _truncate's default length
TruncateLen == 500

\* _truncate without the ellipsis
truncateNoEllipsis(s, length) == Prefix(s, length)

\* _truncate(s, length) of a str
truncate(s, length) ==
    IF StrLen(s) > length THEN Concat(Prefix(s, length), Rep(".", 3)) ELSE s

RequestExceptionText ==
    Str(<<"r", "e", "q", "u", "e", "s", "t", " ",
          "e", "x", "c", "e", "p", "t", "i", "o", "n">>)

\* What create_articles_batch hands back: a dict, or an exception (raised).
Returned(added, skipped, errors) ==
    [raised |-> FALSE, added |-> added, skipped |-> skipped, errors |-> errors]

Raised ==
    [raised |-> TRUE, added |-> JMissing, skipped |-> JMissing, errors |-> JMissing]

NoResult ==
    [raised |-> FALSE, added |-> JMissing, skipped |-> JMissing, errors |-> JMissing]

\* response.json() of a body that decodes to no object, or to nothing: {}
EmptyObject ==
    [t |-> "object", added |-> JMissing, skipped |-> JMissing, errors |-> JMissing]

\* The 200 branch, result being what response.json() gave (t = "invalid":
\* ValueError).
BatchOk(json) ==
    LET result == IF json.t = "object" THEN json ELSE EmptyObject
        added == DictGet(result.added, JInt(0))
        skipped == DictGet(result.skipped, JInt(0))
        errors == PyOr(DictGet(result.errors, JList(<<>>)), JList(<<>>))
    IN  IF ~Sized(errors) THEN Raised
        ELSE IF Truthy(errors) /\ ~Sliceable(errors) THEN Raised
        ELSE Returned(added, skipped, errors)

\* ArticleService.create_articles_batch, after the POST: reply is what
\* requests.post did (kind "transport": a RequestException).
create_articles_batch(reply) ==
    IF reply.kind = "transport"
    THEN Returned(JInt(0), JInt(0), JList(<<RequestExceptionText>>))
    ELSE IF reply.status = 200
    THEN BatchOk(reply.json)
    ELSE Returned(JInt(0), JInt(0), JList(<<truncate(reply.text, TruncateLen)>>))

\* ------------------------------------------------------------------ inputs
\* analyze_text_sentiment_and_terms results the enrichment step may get
SentimentResults ==
    { DefaultSentiment,
      [label |-> "positive", score |-> 90, confidence |-> 90,
       positive_words |-> <<"growth">>, negative_words |-> <<>>] }

\* What one scrape() call may hand back: up to MaxArticles articles, the i-th
\* with url i, each with or without content of its own.
ScrapeResults ==
    UNION { { [i \in 1..n |-> NewArticle(i, c[i])] : c \in [1..n -> {"", "old"}] }
            : n \in 0..MaxArticles }

\* An environment variable: unset, or set to val.
Unset == [set |-> FALSE, val |-> <<>>]

SetTo(chars) == [set |-> TRUE, val |-> Str(chars)]

\* values of SCRAPE_EXTRACT_CONTENT
ToggleEnv ==
    { Unset, SetTo(<<>>), SetTo(<<"0">>), SetTo(<<"1">>),
      SetTo(<<"f", "a", "l", "s", "e">>), SetTo(<<"F", "A", "L", "S", "E">>),
      SetTo(<<"F", "a", "l", "s", "e">>), SetTo(<<"n", "o">>),
      SetTo(<<"N", "O">>), SetTo(<<"N", "o">>), SetTo(<<"y", "e", "s">>),
      SetTo(<<"o", "f", "f">>), SetTo(<<"0", "0">>), SetTo(<<" ", "0">>) }

\* What extract_content may do for one url: return text, "" or None, or raise.
ExtractOutcomes == {"body", "", "None", "raise"}

Http(status, text, json) ==
    [kind |-> "http", status |-> status, text |-> text, json |-> json]

TransportFailure ==
    [kind |-> "transport", status |-> 0, text |-> <<>>, json |-> EmptyObject]

InvalidJson ==
    [t |-> "invalid", added |-> JMissing, skipped |-> JMissing, errors |-> JMissing]

\* a JSON body that is an array, a number, a string or null
NonObjectJson ==
    [t |-> "nonobject", added |-> JMissing, skipped |-> JMissing, errors |-> JMissing]

Object(added, skipped, errors) ==
    [t |-> "object", added |-> added, skipped |-> skipped, errors |-> errors]

DupX == Str(<<"d", "u", "p", ":", "x">>)

\* response bodies of the lengths around the truncation length
Bodies ==
    { Rep("x", n) : n \in {0, 3} \cup (TruncateLen - 1)..(TruncateLen + MaxBodyExcess) }

\* values a field of the reply's JSON object may have
AddedValues == {JMissing, JNull, JInt(3), JStr(DupX)}

SkippedValues == {JMissing, JNull, JInt(2)}

ErrorsValues ==
    { JMissing, JNull, JList(<<>>), JList(<<DupX>>), JStr(DupX), JInt(0),
      JInt(5), JDict(0), JDict(1) }

\* what the backend may do with a batch POST
Replies ==
    {TransportFailure}
    \cup { Http(st, b, InvalidJson) : st \in {201, 409, 500}, b \in Bodies }
    \cup { Http(200, Rep("x", 3), j) : j \in {InvalidJson, NonObjectJson} }
    \cup { Http(200, <<>>, Object(a, sk, e)) :
             a \in AddedValues, sk \in SkippedValues, e \in ErrorsValues }

\* ------------------------------------------------------------------ state
\* A local of scrape_all holds its value from its assignment to its last use.
\* The n_ and res_ variables record what the current cycle has done so far.
VARIABLES
    mode,           \* "once" or "scheduled" (the --scheduled flag)
    pc,             \* where the process is
    si,             \* index in self.scrapers of the for loop
    articles,       \* the list scrape() returned, mutated in place
    k,              \* index of the article loops
    extract_flag,   \* os.getenv('SCRAPE_EXTRACT_CONTENT', '1') (set: the variable was set)
    inflight,       \* the body of the batch POST the backend is handling
    reply,          \* what the backend did with the last POST
    result,         \* what create_articles_batch handed back
    total_scraped,
    total_added,
    total_skipped,
    summary,        \* the dict scrape_all has just returned
    returned,       \* urls of the list the current scraper returned
    posts,          \* batch POSTs made for the current scraper
    ret_total,      \* sum of len(articles) over the scrape() calls
    n_invoked,      \* scrape() calls
    n_raised,       \* scrape() calls that raised
    n_nonempty,     \* scrape() calls that returned a non-empty list
    n_submitted,    \* batch POSTs
    n_added,        \* batch results accumulated into total_added
    n_skipped,      \* batch results accumulated into total_skipped
    res_added,      \* sum of the int added fields of the batch results
    res_skipped,    \* sum of the int skipped fields of the batch results
    faulted         \* an exception reached scrape_all's handler

\* One scrape() call of one scraper.
VARIABLES
    scraper,        \* self: the scraper's class and its max_articles
    spc,            \* where the call is
    entries,        \* feed.entries, or the page's <article> elements
    idx,            \* position in entries of the for loop
    scraped,        \* the local list `articles` of scrape()
    seen_urls       \* NZHeraldScraper's seen_urls

\* One Article from its construction to its serializations.
VARIABLES
    given,          \* the title, url and published_date handed to the scraper's helpers
    apc,            \* where the Article's life is
    valid,          \* what _is_valid_article returned
    made,           \* the Article object, once constructed
    now,            \* the clock, in hours
    wire            \* what the to_dict calls returned, in call order

\* One analyze_text_sentiment_and_terms call.
VARIABLES
    request,        \* title and description (as words), and how the classifier behaves
    tpc,            \* where the call is
    terms,          \* the locals label, score, confidence, positive_words, negative_words
    generated,      \* what the text_generation call did
    ranked,         \* positive_ranked and negative_ranked
    wi,             \* position in the candidate words of the per-word loop
    tally           \* the text_classification calls made, and those that returned

\* The process from __main__ on: run_once or run_scheduled.
VARIABLES
    args,           \* the parsed command line: scheduled, interval_minutes
    environ,        \* os.environ's SCRAPE_INTERVAL_MINUTES
    rpc,            \* where the process is
    interval,       \* the local interval of run_scheduled
    due,            \* minutes from now to the job's next_run (0 or less: due)
    since,          \* minutes since the previous cycle returned
    cycles          \* scrape_all calls made so far

\* One call of a function of the services or of a scraper's helper.
VARIABLES
    called,         \* the function called and what it is called with
    cpc,            \* where the call is
    ret             \* what the call has computed so far, and its result

orchestrator ==
    <<mode, pc, si, articles, k, extract_flag, inflight, reply, result,
      total_scraped, total_added, total_skipped, summary, returned, posts,
      ret_total, n_invoked, n_raised, n_nonempty, n_submitted, n_added, n_skipped,
      res_added, res_skipped, faulted>>

scraping == <<scraper, spc, entries, idx, scraped, seen_urls>>

serializing == <<given, apc, valid, made, now, wire>>

analyzing == <<request, tpc, terms, generated, ranked, wi, tally>>

scheduling == <<args, environ, rpc, interval, due, since, cycles>>

calling == <<called, cpc, ret>>

vars == <<orchestrator, scraping, serializing, analyzing, scheduling, calling>>

\* what the steps of scrape_all, and those of scrape(), leave alone
besidesOrchestrator == <<scraping, serializing, analyzing, scheduling, calling>>

besidesScraping == <<orchestrator, serializing, analyzing, scheduling, calling>>

besidesSerializing == <<orchestrator, scraping, analyzing, scheduling, calling>>

besidesAnalyzing == <<orchestrator, scraping, serializing, scheduling, calling>>

besidesScheduling == <<orchestrator, scraping, serializing, analyzing, calling>>

besidesCalling == <<orchestrator, scraping, serializing, analyzing, scheduling>>

NumScrapers == Len(Registry)

counters == <<total_scraped, total_added, total_skipped>>

history ==
    <<ret_total, n_invoked, n_raised, n_nonempty, n_submitted, n_added, n_skipped,
      res_added, res_skipped>>

NoFlag == [read |-> FALSE, set |-> FALSE, val |-> <<>>]

NoSummary == [returned |-> FALSE, scraped |-> 0, added |-> 0, skipped |-> 0]

\* BaseScraper.__init__'s default max_articles
DefaultMaxArticles == 20

\* BaseScraper.__init__: what a scraper instance carries
BaseScraper(kind, max_articles) == [kind |-> kind, max_articles |-> max_articles]

\* no scrape() call is being followed
ScraperIdle ==
    /\ scraper = BaseScraper("Stuff", DefaultMaxArticles)
    /\ spc = "idle"
    /\ entries = <<>>
    /\ idx = 1
    /\ scraped = <<>>
    /\ seen_urls = {}

\* ScraperOrchestrator.__init__, before run_once or run_scheduled
InitOrchestrator ==
    /\ mode \in {"once", "scheduled"}
    /\ pc = "start"
    /\ si = 1
    /\ articles = <<>>
    /\ k = 1
    /\ extract_flag = NoFlag
    /\ inflight = <<>>
    /\ reply = TransportFailure
    /\ result = NoResult
    /\ total_scraped = 0
    /\ total_added = 0
    /\ total_skipped = 0
    /\ summary = NoSummary
    /\ returned = <<>>
    /\ posts = 0
    /\ ret_total = 0
    /\ n_invoked = 0
    /\ n_raised = 0
    /\ n_nonempty = 0
    /\ n_submitted = 0
    /\ n_added = 0
    /\ n_skipped = 0
    /\ res_added = 0
    /\ res_skipped = 0
    /\ faulted = FALSE

\* no Article is being followed
ArticleIdle ==
    /\ given = <<>>
    /\ apc = "idle"
    /\ valid = FALSE
    /\ made = <<>>
    /\ now = 0
    /\ wire = <<>>

\* the text_generation call has not been made
NoGeneration ==
    [kind |-> "pending", positive_words |-> [t |-> "missing", l |-> <<>>],
     negative_words |-> [t |-> "missing", l |-> <<>>]]

NoRanked == [positive |-> <<>>, negative |-> <<>>]

NoTally == [calls |-> 0, answers |-> 0, word_calls |-> 0]

\* no analyze_text_sentiment_and_terms call is being followed
AnalyzerIdle ==
    /\ request = <<>>
    /\ tpc = "idle"
    /\ terms = DefaultSentiment
    /\ generated = NoGeneration
    /\ ranked = NoRanked
    /\ wi = 1
    /\ tally = NoTally

\* __main__ has not been followed
NoArgs == [scheduled |-> FALSE, interval_minutes |-> [given |-> FALSE, val |-> 0]]

SchedulerIdle ==
    /\ args = NoArgs
    /\ environ = Unset
    /\ rpc = "idle"
    /\ interval = 0
    /\ due = 0
    /\ since = 0
    /\ cycles = 0

\* no call is being followed
CallIdle ==
    /\ called = <<>>
    /\ cpc = "idle"
    /\ ret = <<>>

\* what the specifications that follow one part leave idle
OthersIdle == SchedulerIdle /\ CallIdle

Init ==
    InitOrchestrator /\ ScraperIdle /\ ArticleIdle /\ AnalyzerIdle /\ OthersIdle

\* ------------------------------------------------------------------ scrape_all
Urls(arts) == [i \in 1..Len(arts) |-> arts[i].url]

\* os.getenv(name, default)
Getenv(env, default) == IF env.set THEN env.val ELSE default

\* the toggle's test without lower()
ExtractEnabledCaseSensitive(flag) ==
    /\ flag # <<>>
    /\ flag \notin
         { Str(<<"0">>), Str(<<"f", "a", "l", "s", "e">>), Str(<<"n", "o">>) }

\* the test of the extraction toggle
ExtractEnabled(flag) ==
    /\ flag # <<>>
    /\ Lower(flag) \notin
         { Str(<<"0">>), Str(<<"f", "a", "l", "s", "e">>), Str(<<"n", "o">>) }

\* no `if articles:` test
HasArticlesAlways(list) == TRUE

\* `if articles:`
HasArticles(list) == list # <<>>

\* no handler: the exception leaves scrape_all
OuterExceptEscapes == "crashed"

\* where a raise inside the for loop's try leaves the process: in scrape_all's
\* `except Exception`
OuterExcept == "except"

\* a handler around the whole loop: no scraper is left
AfterExceptAbort(i) == NumScrapers + 1

\* the scraper the for loop goes on with after the handler, i being the
\* index of the one that failed
AfterExcept(i) == i + 1

\* no test of the content already there
NeedsExtractionAlways(art) == TRUE

\* `if getattr(art, 'content', None): continue` lets the article through
NeedsExtraction(art) == art.content = ""

\* the label, the score and the confidence alone assigned
WithSentimentScores(art, sentiment) ==
    [art EXCEPT !.sentiment_label = sentiment.label,
                !.sentiment_score = sentiment.score,
                !.sentiment_confidence = sentiment.confidence,
                !.analyzed = TRUE,
                !.enriched = <<sentiment>>]

\* the enrichment assignments of one article
WithSentiment(art, sentiment) ==
    [art EXCEPT !.sentiment_label = sentiment.label,
                !.sentiment_score = sentiment.score,
                !.sentiment_confidence = sentiment.confidence,
                !.positive_words = sentiment.positive_words,
                !.negative_words = sentiment.negative_words,
                !.analyzed = TRUE,
                !.enriched = <<sentiment>>]

\* one pass of the extraction loop's body for an article without content,
\* extract_content doing out ("raise": caught by the per-article except)
WithContent(art, out) ==
    IF out \in {"raise", "None", ""}
    THEN [art EXCEPT !.fetched = out]
    ELSE [art EXCEPT !.content = out, !.fetched = out]

\* articles_data of create_articles_batch
Payload(arts) == [i \in 1..Len(arts) |-> to_dict(arts[i])]

\* run_once / run_scheduled call scrape_all; in scheduled mode again each
\* time the job is due
StartCycle ==
    /\ pc \in {"start", "waiting"}
    /\ pc' = "loop"
    /\ si' = 1
    /\ total_scraped' = 0
    /\ total_added' = 0
    /\ total_skipped' = 0
    /\ summary' = NoSummary
    /\ returned' = <<>>
    /\ posts' = 0
    /\ ret_total' = 0
    /\ n_invoked' = 0
    /\ n_raised' = 0
    /\ n_nonempty' = 0
    /\ n_submitted' = 0
    /\ n_added' = 0
    /\ n_skipped' = 0
    /\ res_added' = 0
    /\ res_skipped' = 0
    /\ faulted' = FALSE
    /\ UNCHANGED besidesOrchestrator
    /\ UNCHANGED <<mode, articles, k, extract_flag, inflight, reply, result>>

\* scraper.scrape() returns a list
ScrapeReturns ==
    /\ pc = "loop"
    /\ si <= NumScrapers
    /\ \E list \in ScrapeResults :
         /\ returned' = Urls(list)
         /\ ret_total' = ret_total + Len(list)
         /\ IF HasArticles(list)
            THEN /\ total_scraped' = total_scraped + Len(list)
                 /\ n_nonempty' = n_nonempty + 1
                 /\ articles' = list
                 /\ pc' = IF Len(list) > 0 THEN "enrich" ELSE "gate"
                 /\ si' = si
            ELSE /\ total_scraped' = total_scraped
                 /\ n_nonempty' = n_nonempty
                 /\ articles' = <<>>
                 /\ pc' = "loop"
                 /\ si' = si + 1
    /\ n_invoked' = n_invoked + 1
    /\ k' = 1
    /\ posts' = 0
    /\ UNCHANGED besidesOrchestrator
    /\ UNCHANGED <<mode, extract_flag, inflight, reply, result, total_added,
                   total_skipped, summary, n_raised, n_submitted, n_added,
                   n_skipped, res_added, res_skipped, faulted>>

\* scraper.scrape() raises
ScrapeRaises ==
    /\ pc = "loop"
    /\ si <= NumScrapers
    /\ n_invoked' = n_invoked + 1
    /\ n_raised' = n_raised + 1
    /\ returned' = <<>>
    /\ posts' = 0
    /\ pc' = OuterExcept
    /\ UNCHANGED besidesOrchestrator
    /\ UNCHANGED <<mode, si, articles, k, extract_flag, inflight, reply,
                   result, counters, summary, ret_total, n_nonempty,
                   n_submitted, n_added, n_skipped, res_added, res_skipped,
                   faulted>>

\* one pass of the enrichment loop
Enrich ==
    /\ pc = "enrich"
    /\ \E sentiment \in SentimentResults :
         articles' = [articles EXCEPT ![k] = WithSentiment(@, sentiment)]
    /\ IF k < Len(articles)
       THEN k' = k + 1 /\ pc' = "enrich"
       ELSE k' = 1 /\ pc' = "gate"
    /\ UNCHANGED besidesOrchestrator
    /\ UNCHANGED <<mode, si, extract_flag, inflight, reply, result, counters,
                   summary, returned, posts, history, faulted>>

\* the toggle is read
ReadToggle ==
    /\ pc = "gate"
    /\ \E env \in ToggleEnv :
         extract_flag' = [read |-> TRUE, set |-> env.set,
                          val |-> Getenv(env, Str(<<"1">>))]
    /\ pc' = "test"
    /\ UNCHANGED besidesOrchestrator
    /\ UNCHANGED <<mode, si, articles, k, inflight, reply, result, counters,
                   summary, returned, posts, history, faulted>>

\* ... and tested
TestToggle ==
    /\ pc = "test"
    /\ pc' = IF ExtractEnabled(extract_flag.val) /\ Len(articles) > 0
             THEN "extract" ELSE "batch"
    /\ UNCHANGED besidesOrchestrator
    /\ UNCHANGED <<mode, si, articles, k, extract_flag, inflight, reply, result,
                   counters, summary, returned, posts, history, faulted>>

\* one pass of the extraction loop
Extract ==
    /\ pc = "extract"
    /\ IF NeedsExtraction(articles[k])
       THEN \E out \in ExtractOutcomes :
              articles' = [articles EXCEPT ![k] = WithContent(@, out)]
       ELSE articles' = articles
    /\ IF k < Len(articles)
       THEN k' = k + 1 /\ pc' = "extract"
       ELSE k' = 1 /\ pc' = "batch"
    /\ extract_flag' = NoFlag
    /\ UNCHANGED besidesOrchestrator
    /\ UNCHANGED <<mode, si, inflight, reply, result, counters, summary,
                   returned, posts, history, faulted>>

\* create_articles_batch(articles) serialises the articles and POSTs them
Post ==
    /\ pc = "batch"
    /\ inflight' = Payload(articles)
    /\ posts' = posts + 1
    /\ n_submitted' = n_submitted + 1
    /\ articles' = <<>>
    /\ pc' = "posting"
    /\ extract_flag' = NoFlag
    /\ UNCHANGED besidesOrchestrator
    /\ UNCHANGED <<mode, si, k, reply, result, counters, summary,
                   returned, ret_total, n_invoked, n_raised, n_nonempty,
                   n_added, n_skipped, res_added, res_skipped, faulted>>

\* the backend has the request
Receive ==
    /\ pc = "posting"
    /\ inflight' = <<>>
    /\ pc' = "replying"
    /\ UNCHANGED besidesOrchestrator
    /\ UNCHANGED <<mode, si, articles, k, extract_flag, reply, result, counters,
                   summary, returned, posts, history, faulted>>

\* requests.post is over (r: what it did) and create_articles_batch maps it
Deliver ==
    /\ pc = "replying"
    /\ \E r \in Replies :
         /\ reply' = r
         /\ result' = create_articles_batch(r)
    /\ IF result'.raised
       THEN /\ pc' = OuterExcept
            /\ UNCHANGED <<res_added, res_skipped>>
       ELSE /\ pc' = "accumulate"
            /\ res_added' = res_added + IF result'.added.t = "int"
                                        THEN result'.added.i ELSE 0
            /\ res_skipped' = res_skipped + IF result'.skipped.t = "int"
                                            THEN result'.skipped.i ELSE 0
    /\ UNCHANGED besidesOrchestrator
    /\ UNCHANGED <<mode, si, articles, k, extract_flag, inflight, counters,
                   summary, returned, posts, ret_total, n_invoked, n_raised,
                   n_nonempty, n_submitted, n_added, n_skipped, faulted>>

\* total_added += result.get('added', 0); total_skipped += ...; the logging
Accumulate ==
    /\ pc = "accumulate"
    /\ LET added == DictGet(result.added, JInt(0))
           skipped == DictGet(result.skipped, JInt(0))
       IN  IF ~Addable(added)
           THEN /\ pc' = OuterExcept
                /\ UNCHANGED <<si, total_added, total_skipped, n_added,
                               n_skipped, reply, result>>
           ELSE IF ~Addable(skipped)
           THEN /\ total_added' = total_added + added.i
                /\ n_added' = n_added + 1
                /\ pc' = OuterExcept
                /\ UNCHANGED <<si, total_skipped, n_skipped, reply, result>>
           ELSE /\ total_added' = total_added + added.i
                /\ total_skipped' = total_skipped + skipped.i
                /\ n_added' = n_added + 1
                /\ n_skipped' = n_skipped + 1
                /\ pc' = "loop"
                /\ si' = si + 1
                /\ reply' = TransportFailure
                /\ result' = NoResult
    /\ UNCHANGED besidesOrchestrator
    /\ UNCHANGED <<mode, articles, k, extract_flag, inflight, total_scraped,
                   summary, returned, posts, ret_total, n_invoked, n_raised,
                   n_nonempty, n_submitted, res_added, res_skipped, faulted>>

\* scrape_all's `except Exception`: log, go on with the next scraper
HandleException ==
    /\ pc = "except"
    /\ pc' = "loop"
    /\ si' = AfterExcept(si)
    /\ faulted' = TRUE
    /\ articles' = <<>>
    /\ k' = 1
    /\ extract_flag' = NoFlag
    /\ reply' = TransportFailure
    /\ result' = NoResult
    /\ UNCHANGED besidesOrchestrator
    /\ UNCHANGED <<mode, inflight, counters, summary, returned, posts, history>>

\* the for loop is over: the summary is returned
ReturnSummary ==
    /\ pc = "loop"
    /\ si > NumScrapers
    /\ summary' = [returned |-> TRUE, scraped |-> total_scraped,
                   added |-> total_added, skipped |-> total_skipped]
    /\ pc' = IF mode = "once" THEN "exited" ELSE "waiting"
    /\ UNCHANGED besidesOrchestrator
    /\ UNCHANGED <<mode, si, articles, k, extract_flag, inflight, reply, result,
                   counters, returned, posts, history, faulted>>

Next ==
    \/ StartCycle
    \/ ScrapeReturns
    \/ ScrapeRaises
    \/ Enrich
    \/ ReadToggle
    \/ TestToggle
    \/ Extract
    \/ Post
    \/ Receive
    \/ Deliver
    \/ Accumulate
    \/ HandleException
    \/ ReturnSummary

Spec == Init /\ [][Next]_vars

\* analyze_text_sentiment_and_terms raises (it has no handler of its own in
\* the enrichment loop)
EnrichRaises ==
    /\ pc = "enrich"
    /\ pc' = OuterExcept
    /\ UNCHANGED besidesOrchestrator
    /\ UNCHANGED <<mode, si, articles, k, extract_flag, inflight, reply, result,
                   counters, summary, returned, posts, history, faulted>>

NextFaulty == Next \/ EnrichRaises

\* the cycle with an enricher that may raise
SpecFaulty == Init /\ [][NextFaulty]_vars

\* ---- a remote endpoint that never answers
\* the network calls of a cycle that are given a timeout: requests.get of
\* the NZ Herald page, requests.get of extract_content, requests.post of the
\* batch; feedparser.parse(self.base_url) and InferenceClient() are given none
HasTimeout(call) == call \in {"page", "content", "post"}

\* the network calls the step at p of scrape_all makes
CallsAt(p) ==
    CASE p = "loop" /\ si <= NumScrapers -> {"feed", "page"}
      [] p = "enrich" -> {"inference"}
      [] p = "extract" /\ NeedsExtraction(articles[k]) -> {"content"}
      [] p = "replying" -> {"post"}
      [] OTHER -> {}

\* the endpoint of a call never answers: with a timeout the call raises when
\* it expires, which is one of the outcomes the steps above draw; without
\* one the call does not return
NeverAnswers ==
    /\ \E call \in CallsAt(pc) : ~HasTimeout(call)
    /\ pc' = "blocked"
    /\ UNCHANGED besidesOrchestrator
    /\ UNCHANGED <<mode, si, articles, k, extract_flag, inflight, reply, result,
                   counters, summary, returned, posts, history, faulted>>

NextUnanswered == Next \/ NeverAnswers

\* the cycle with endpoints that may never answer; the process is
\* sequential, so a step that can be taken is taken
SpecUnanswered ==
    Init /\ [][NextUnanswered]_vars /\ WF_vars(NextUnanswered)

\* ------------------------------------------------------------------ __main__
\* Time is counted in minutes: time.sleep(60) is one of them.
SleepMinutes == 1

\* os.getenv('SCRAPE_INTERVAL_MINUTES', '30')
DefaultInterval == Str(<<"3", "0">>)

Digits == <<"0", "1", "2", "3", "4", "5", "6", "7", "8", "9">>

\* the value of a decimal digit, -1 for any other character
DigitValue(c) ==
    IF \E d \in 1..Len(Digits) : Digits[d] = c
    THEN (CHOOSE d \in 1..Len(Digits) : Digits[d] = c) - 1
    ELSE -1

RECURSIVE StrOfInt(_)
\* str(n), n not negative
StrOfInt(n) ==
    IF n < 10 THEN Rep(Digits[n + 1], 1)
    ELSE Concat(StrOfInt(n \div 10), Rep(Digits[(n % 10) + 1], 1))

RECURSIVE IntOfDigits(_, _)
IntOfDigits(t, acc) ==
    IF t = <<>> THEN acc
    ELSE IntOfDigits(IF Head(t).n = 1 THEN Tail(t)
                     ELSE <<Run(Head(t).c, Head(t).n - 1)>> \o Tail(t),
                     10 * acc + DigitValue(Head(t).c))

\* int(s): the number a string of decimal digits spells; ValueError for a
\* string with another character, or none
IntOfStr(s) ==
    IF s = <<>> \/ \E i \in 1..Len(s) : DigitValue(s[i].c) < 0
    THEN [raised |-> TRUE, i |-> 0]
    ELSE [raised |-> FALSE, i |-> IntOfDigits(s, 0)]

\* --interval-minutes: not given
NoOverride == [given |-> FALSE, val |-> 0]

Override(n) == [given |-> TRUE, val |-> n]

\* `if args.interval_minutes:`
OverrideGiven(arg) == arg.given /\ arg.val # 0

\* command lines
CommandLines ==
    { [scheduled |-> sch, interval_minutes |-> o] :
        sch \in BOOLEAN,
        o \in {NoOverride} \cup { Override(n) : n \in 0..MaxOverride } }

\* values of SCRAPE_INTERVAL_MINUTES in the environment of the process
IntervalEnv ==
    { Unset, SetTo(<<"1">>), SetTo(<<"2">>), SetTo(<<"0", "3">>),
      SetTo(<<"3", "0", "m">>) }

\* the process starts
InitMain ==
    /\ InitOrchestrator
    /\ ScraperIdle
    /\ ArticleIdle
    /\ AnalyzerIdle
    /\ CallIdle
    /\ mode = "once"
    /\ args \in CommandLines
    /\ environ \in IntervalEnv
    /\ rpc = "main"
    /\ interval = 0
    /\ due = 0
    /\ since = 0
    /\ cycles = 0

\* __main__: the override is put into the environment, the mode is chosen
Main ==
    /\ rpc = "main"
    /\ environ' = IF OverrideGiven(args.interval_minutes)
                  THEN [set |-> TRUE, val |-> StrOfInt(args.interval_minutes.val)]
                  ELSE environ
    /\ rpc' = IF args.scheduled THEN "run_scheduled" ELSE "run_once"
    /\ UNCHANGED <<args, interval, due, since, cycles>>
    /\ UNCHANGED besidesScheduling

\* run_once calls scrape_all
RunOnce ==
    /\ rpc = "run_once"
    /\ rpc' = "only"
    /\ cycles' = cycles + 1
    /\ UNCHANGED <<args, environ, interval, due, since>>
    /\ UNCHANGED besidesScheduling

\* run_scheduled reads the interval and calls scrape_all
RunScheduled ==
    /\ rpc = "run_scheduled"
    /\ LET read == IntOfStr(Getenv(environ, DefaultInterval))
       IN  IF read.raised
           THEN rpc' = "crashed" /\ UNCHANGED <<interval, cycles>>
           ELSE /\ interval' = read.i
                /\ rpc' = "first"
                /\ cycles' = cycles + 1
    /\ UNCHANGED <<args, environ, due, since>>
    /\ UNCHANGED besidesScheduling

\* the job's next_run as schedule sets it when the job is made and after
\* each of its runs: now + interval
NextRun(minutes) == minutes

\* scrape_all returns: run_once returns and the process ends; run_scheduled
\* makes the job; run_pending schedules the job's next run and returns, and
\* the loop sleeps
CycleReturns ==
    /\ rpc \in {"only", "first", "job"}
    /\ IF rpc = "only"
       THEN rpc' = "exited" /\ UNCHANGED <<due, since>>
       ELSE /\ due' = NextRun(interval)
            /\ since' = 0
            /\ rpc' = IF rpc = "first" THEN "pending" ELSE "sleeping"
    /\ UNCHANGED <<args, environ, interval, cycles>>
    /\ UNCHANGED besidesScheduling

\* scrape_all does not return: a call of the cycle that has no timeout is
\* never answered
CycleBlocks ==
    /\ rpc \in {"only", "first", "job"}
    /\ \E c \in {"feed", "inference"} : ~HasTimeout(c)
    /\ rpc' = "blocked"
    /\ UNCHANGED <<args, environ, interval, due, since, cycles>>
    /\ UNCHANGED besidesScheduling

\* schedule.run_pending(): the job is run when its next_run has come
RunPending ==
    /\ rpc = "pending"
    /\ IF due <= 0
       THEN rpc' = "job" /\ cycles' = IF cycles < MaxCycles THEN cycles + 1 ELSE cycles
       ELSE rpc' = "sleeping" /\ UNCHANGED cycles
    /\ UNCHANGED <<args, environ, interval, due, since>>
    /\ UNCHANGED besidesScheduling

\* time.sleep(60)
Sleep ==
    /\ rpc = "sleeping"
    /\ due' = due - SleepMinutes
    /\ since' = since + SleepMinutes
    /\ rpc' = "pending"
    /\ UNCHANGED <<args, environ, interval, cycles>>
    /\ UNCHANGED besidesScheduling

NextMain ==
    \/ Main
    \/ RunOnce
    \/ RunScheduled
    \/ CycleReturns
    \/ CycleBlocks
    \/ RunPending
    \/ Sleep

\* the process is sequential: a step that can be taken is taken
SpecMain == InitMain /\ [][NextMain]_vars /\ WF_vars(NextMain)

\* ------------------------------------------------------------------ create_article
\* status codes the backend may answer a single-article POST with
Statuses == {200, 201, 202, 204, 301, 400, 401, 404, 409, 422, 500, 503}

\* what requests.post may do: raise a RequestException, or return a response
CreateReplies ==
    {TransportFailure}
    \cup { Http(st, b, InvalidJson) : st \in Statuses, b \in Bodies }

\* create_article is called
CreateCall(article, server) ==
    [fn |-> "create_article", article |-> article, server |-> server]

NoReturn == [raised |-> FALSE, value |-> FALSE]

\* the 200 alone taken for success
AcceptedOnlyOk(status) == status = 200

\* `response.status_code in [200, 201]`
Accepted(status) == status \in {200, 201}

InitCreate ==
    /\ InitOrchestrator
    /\ ScraperIdle
    /\ ArticleIdle
    /\ AnalyzerIdle
    /\ SchedulerIdle
    /\ mode = "once"
    /\ called \in { CreateCall(NewArticle(u, c), r) :
                      u \in 1..MaxArticles, c \in {"", "old"}, r \in CreateReplies }
    /\ cpc = "start"
    /\ ret = [payload |-> <<>>, logged |-> <<>>, result |-> NoReturn]

\* payload = article.to_dict(); requests.post(..., json=payload, timeout=10)
PostArticle ==
    /\ cpc = "start"
    /\ ret' = [ret EXCEPT !.payload = <<to_dict(called.article)>>]
    /\ cpc' = IF called.server.kind = "transport" THEN "except" ELSE "response"
    /\ UNCHANGED called
    /\ UNCHANGED besidesCalling

\* the three branches on response.status_code
MapStatus ==
    /\ cpc = "response"
    /\ LET response == called.server
       IN  ret' = [ret EXCEPT
                     !.result = [raised |-> FALSE,
                                 value |-> Accepted(response.status)],
                     !.logged = IF Accepted(response.status)
                                   \/ response.status = 409
                                THEN <<>>
                                ELSE truncate(response.text, TruncateLen)]
    /\ cpc' = "done"
    /\ UNCHANGED called
    /\ UNCHANGED besidesCalling

\* `except requests.exceptions.RequestException`: the payload is built again
\* for the log, False is returned
CreateExcept ==
    /\ cpc = "except"
    /\ ret' = [ret EXCEPT !.payload = @ \o <<to_dict(called.article)>>,
                          !.result = [raised |-> FALSE, value |-> FALSE]]
    /\ cpc' = "done"
    /\ UNCHANGED called
    /\ UNCHANGED besidesCalling

NextCreate == PostArticle \/ MapStatus \/ CreateExcept

SpecCreate == InitCreate /\ [][NextCreate]_vars

\* ------------------------------------------------------------------ scrapers
\* the `[:20]` of the feed scrapers' entry loops
FeedLimit == 20

\* SCRAPER_REGISTRY's classes
ScraperKinds == {"Stuff", "RNZ", "OneNews", "NZHerald"}

\* the three scrapers that read an RSS feed
IsFeedScraper(s) == s.kind \in {"Stuff", "RNZ", "OneNews"}

\* values of self.max_articles
MaxArticlesValues == 1..MaxConfigured \cup {DefaultMaxArticles}

\* ---- text as the scrapers handle it
\* Beside ordinary characters a text holds " " (whitespace), "<" (a
\* less-than sign that opens no tag) and whole tags, each one character.
Tags == {"<p>", "</p>", "<img/>"}

RECURSIVE LStrip(_)
LStrip(s) ==
    IF s = <<>> THEN <<>>
    ELSE IF Head(s).c = " " THEN LStrip(Tail(s)) ELSE s

RECURSIVE RStrip(_)
RStrip(s) ==
    IF s = <<>> THEN <<>>
    ELSE IF s[Len(s)].c = " " THEN RStrip(SubSeq(s, 1, Len(s) - 1)) ELSE s

\* s.strip()
Strip(s) == RStrip(LStrip(s))

\* len(s.split())
WordCount(s) ==
    Cardinality({ i \in 1..Len(s) : s[i].c # " " /\ (i = 1 \/ s[i - 1].c = " ") })

\* c in s, for a character (or a substring that a character stands for)
Contains(s, c) == \E i \in 1..Len(s) : s[i].c = c

\* '<' in s
HasLessThan(s) == \E i \in 1..Len(s) : s[i].c \in Tags \cup {"<"}

RECURSIVE GetTextFrom(_, _)
\* get_text(strip=True) of the rest s of a document, node being the text
\* node read so far: every text node stripped, the tags dropped
GetTextFrom(s, node) ==
    IF s = <<>> THEN Strip(node)
    ELSE IF Head(s).c \in Tags
         THEN Concat(Strip(node), GetTextFrom(Tail(s), <<>>))
         ELSE GetTextFrom(Tail(s), node \o <<Head(s)>>)

\* BeautifulSoup(s, 'html.parser').get_text(strip=True)
GetText(s) == GetTextFrom(s, <<>>)

RECURSIVE GetTextRaw(_)
\* element.get_text(): the text nodes as they are, the tags dropped
GetTextRaw(s) ==
    IF s = <<>> THEN <<>>
    ELSE IF Head(s).c \in Tags THEN GetTextRaw(Tail(s))
    ELSE Concat(<<Head(s)>>, GetTextRaw(Tail(s)))

\* ---- entries
\* A key of a feed entry, or a part of an <article> element: absent, or
\* there with a text.
Absent == [set |-> FALSE, val |-> <<>>]

Given(text) == [set |-> TRUE, val |-> text]

\* entry.get(key, default)
EntryGet(field, default) == IF field.set THEN field.val ELSE default

\* A feed entry: title, link, summary, the 'url' keys of entry.links, and
\* whether reading it raises. An <article> element: the title its title
\* strategies find, its longest qualifying href, the text of its summary
\* paragraph, and whether reading it raises.
Entry(title, link, summ, links, fault) ==
    [title |-> title, link |-> link, summary |-> summ, links |-> links,
     fault |-> fault]

\* an entry with a title and a link and nothing else
Plain(title, link) == Entry(Given(title), Given(link), Absent, <<>>, FALSE)

Blank == Rep(" ", 1)

Pad(s) == Concat(Concat(Blank, s), Blank)

\* a title of one word, and one of two
Title1 == Str(<<"T">>)

Title2 == Str(<<"T", " ", "T">>)

\* the n-th url
U(n) == Rep("u", n)

\* a url on news.google.com, and two on 1news.co.nz
GoogleUrl == Str(<<"g", "u">>)

OneNewsUrl(n) == Concat(Str(<<"n">>), U(n))

\* an entry whose reading raises
Faulty == Entry(Given(Title2), Given(U(1)), Absent, <<>>, TRUE)

EntryKinds ==
    { Faulty,
      Plain(<<>>, U(1)), Plain(Blank, U(1)),
      Entry(Given(Title2), Absent, Absent, <<>>, FALSE), Plain(Title2, Blank),
      Plain(Pad(Title2), Pad(U(1))), Plain(Title1, U(2)), Plain(Title2, U(1)) }

\* feeds and pages of up to MaxEntries entries of every kind
ShortPages == UNION { [1..n -> EntryKinds] : n \in 0..MaxEntries }

\* n entries with titles and links of their own, but for the one at p
LongPage(n, p, e) == [i \in 1..n |-> IF i = p THEN e ELSE Plain(Title2, U(i))]

\* feeds and pages of about FeedLimit entries
LongPages ==
    { LongPage(n, p, e) :
        n \in FeedLimit..(FeedLimit + MaxOverflow),
        p \in {0, 1, FeedLimit},
        e \in {Faulty, Plain(<<>>, U(1))} }

\* summaries: none, empty, blank, text, padded text, text in tags, a tag
\* alone, blank in tags, text with a less-than sign
Summaries ==
    { Absent, Given(<<>>), Given(Blank), Given(Str(<<"S">>)),
      Given(Pad(Str(<<"S">>))),
      Given(Str(<<"<p>", " ", "S", " ", "</p>", " ", "<p>", "S", "</p>">>)),
      Given(Str(<<"<img/>">>)), Given(Str(<<"<p>", " ", "</p>">>)),
      Given(Str(<<"a", " ", "<", " ", "b">>)) }

\* one entry with a summary
SummaryPages == { <<Entry(Given(Title2), Given(U(1)), s, <<>>, FALSE)>> : s \in Summaries }

\* one entry with a Google News link, and what entry.links may hold
GooglePages ==
    { <<Entry(Given(Title2), Given(GoogleUrl), Absent, ls, FALSE)>> :
        ls \in { <<>>, <<Absent, Absent>>, <<Given(U(2))>>,
                 <<Absent, Given(U(2)), Given(OneNewsUrl(1)), Given(OneNewsUrl(2))>> } }

Pages == ShortPages \cup LongPages \cup SummaryPages \cup GooglePages

\* feed.entries[:20]
FeedWindow(feed) ==
    SubSeq(feed, 1, IF Len(feed) < FeedLimit THEN Len(feed) ELSE FeedLimit)

\* Article(title=..., description=..., url=...)
Article(title, description, url) ==
    [title |-> title, description |-> description] @@ NewArticle(url, "")

\* the entry loop without the .strip() of title and link
ParseEntryUntrimmed(entry) ==
    IF entry.fault THEN "raise"
    ELSE IF EntryGet(entry.title, <<>>) = <<>>
            \/ EntryGet(entry.link, <<>>) = <<>> THEN "skip"
    ELSE "article"

\* the body of a feed scraper's entry loop: the entry raises, is skipped
\* (`if not title or not url: continue`) or gives an Article
ParseEntry(entry) ==
    IF entry.fault THEN "raise"
    ELSE IF Strip(EntryGet(entry.title, <<>>)) = <<>>
            \/ Strip(EntryGet(entry.link, <<>>)) = <<>> THEN "skip"
    ELSE "article"

RECURSIVE FirstOneNewsUrl(_, _)
\* OneNewsScraper: the first link of entry.links with a 'url' on 1news.co.nz,
\* or url when there is none
FirstOneNewsUrl(links, url) ==
    IF links = <<>> THEN url
    ELSE IF Head(links).set /\ Contains(Head(links).val, "n") THEN Head(links).val
    ELSE FirstOneNewsUrl(Tail(links), url)

\* the url a feed scraper gives the article of an entry
EntryUrl(s, entry) ==
    LET url == Strip(EntryGet(entry.link, <<>>))
    IN  IF s.kind = "OneNews" /\ Contains(url, "g")
        THEN FirstOneNewsUrl(entry.links, url) ELSE url

\* RNZScraper and OneNewsScraper: the markup is taken out of a description
\* that holds a '<'
StripMarkup(s, description) ==
    IF s.kind \in {"RNZ", "OneNews"} /\ HasLessThan(description)
    THEN GetText(description) ELSE description

\* the description a feed scraper gives the article of an entry
EntryDescription(s, entry) ==
    LET title == Strip(EntryGet(entry.title, <<>>))
    IN  StripMarkup(s, Strip(EntryGet(entry.summary, title)))

\* the Article a feed scraper makes of an entry that is not skipped
EntryArticle(s, entry) ==
    Article(Strip(EntryGet(entry.title, <<>>)), EntryDescription(s, entry),
            EntryUrl(s, entry))

\* the test without the .strip() calls
is_valid_article_untrimmed(title, url) == title # <<>> /\ url # <<>>

\* BaseScraper._is_valid_article
is_valid_article(title, url) == Strip(title) # <<>> /\ Strip(url) # <<>>

\* BaseScraper._create_article
create_article(title, description, url) ==
    Article(Strip(title), Strip(description), url)

\* NZHeraldScraper._extract_description
extract_description(elem, title) ==
    IF elem.summary.set /\ Strip(GetTextRaw(elem.summary.val)) # <<>>
    THEN Strip(GetTextRaw(elem.summary.val))
    ELSE title

\* NZHeraldScraper._extract_article_from_element: <<the Article>>, or <<>>
\* for None (no qualifying link, no title of two words, or an exception of
\* its own)
extract_article_from_element(elem) ==
    LET href == EntryGet(elem.link, <<>>)
        title == Strip(EntryGet(elem.title, <<>>))
    IN  IF elem.fault \/ href = <<>> THEN <<>>
        ELSE IF title = <<>> \/ WordCount(title) < 2 THEN <<>>
        ELSE IF ~is_valid_article(title, href) THEN <<>>
        ELSE <<create_article(title, extract_description(elem, title), href)>>

\* where an exception in scrape()'s outer try leaves the call: the handler
\* logs and `return articles` follows
ScrapeExcept == "returned"

\* no try around the body of the entry loop
EntryExceptEscalates == "outer"

\* what the entry loop's `except Exception` does
EntryExcept == "continue"

\* a scraper has been constructed and scrape() called
InitScrape ==
    /\ InitOrchestrator
    /\ ArticleIdle
    /\ AnalyzerIdle
    /\ OthersIdle
    /\ mode = "once"
    /\ scraper \in { BaseScraper(kind, m) : kind \in ScraperKinds,
                                             m \in MaxArticlesValues }
    /\ spc = "fetch"
    /\ entries = <<>>
    /\ idx = 1
    /\ scraped = <<>>
    /\ seen_urls = {}

\* feedparser.parse, requests.get or raise_for_status raises
FetchRaises ==
    /\ spc = "fetch"
    /\ spc' = ScrapeExcept
    /\ UNCHANGED <<scraper, entries, idx, scraped, seen_urls>>
    /\ UNCHANGED besidesScraping

\* the feed or the page is there: no entries, no containers: `return articles`
FetchReturns ==
    /\ spc = "fetch"
    /\ \E page \in Pages :
         /\ entries' = page
         /\ spc' = IF page = <<>> THEN "returned" ELSE "loop"
    /\ UNCHANGED <<scraper, idx, scraped, seen_urls>>
    /\ UNCHANGED besidesScraping

\* one pass of a feed scraper's `for entry in feed.entries[:20]`
FeedEntry ==
    /\ spc = "loop"
    /\ IsFeedScraper(scraper)
    /\ idx <= Len(FeedWindow(entries))
    /\ LET parsed == ParseEntry(entries[idx])
       IN  /\ scraped' = IF parsed = "article"
                         THEN Append(scraped, EntryArticle(scraper, entries[idx]))
                         ELSE scraped
           /\ spc' = IF parsed = "raise" /\ EntryExcept # "continue"
                     THEN ScrapeExcept ELSE "loop"
    /\ idx' = idx + 1
    /\ UNCHANGED <<scraper, entries, seen_urls>>
    /\ UNCHANGED besidesScraping

\* one pass of NZHeraldScraper's `for article_elem in article_elements`
HeraldContainer ==
    /\ spc = "loop"
    /\ ~IsFeedScraper(scraper)
    /\ idx <= Len(entries)
    /\ Len(scraped) < scraper.max_articles
    /\ LET article == extract_article_from_element(entries[idx])
       IN  IF article # <<>> /\ article[1].url \notin seen_urls
           THEN /\ scraped' = scraped \o article
                /\ seen_urls' = seen_urls \cup {article[1].url}
           ELSE UNCHANGED <<scraped, seen_urls>>
    /\ idx' = idx + 1
    /\ spc' = "loop"
    /\ UNCHANGED <<scraper, entries>>
    /\ UNCHANGED besidesScraping

\* the loop is over (or left by NZHeraldScraper's break): `return articles`
ScrapeReturnsList ==
    /\ spc = "loop"
    /\ IF IsFeedScraper(scraper)
       THEN idx > Len(FeedWindow(entries))
       ELSE idx > Len(entries) \/ Len(scraped) >= scraper.max_articles
    /\ spc' = "returned"
    /\ UNCHANGED <<scraper, entries, idx, scraped, seen_urls>>
    /\ UNCHANGED besidesScraping

NextScrape ==
    \/ FetchRaises
    \/ FetchReturns
    \/ FeedEntry
    \/ HeraldContainer
    \/ ScrapeReturnsList

\* one scrape() call of any registered scraper
SpecScrape == InitScrape /\ [][NextScrape]_vars

\* ------------------------------------------------------------------ dates
\* A datetime to the hour: its fields, whether it has a tzinfo, and the
\* utcoffset of that tzinfo in hours.
DateTime(y, mo, d, h, aware, off) ==
    [year |-> y, month |-> mo, day |-> d, hour |-> h, aware |-> aware,
     utcoffset |-> off]

\* a datetime with tzinfo tz.UTC, and one without tzinfo
Utc(y, mo, d, h) == DateTime(y, mo, d, h, TRUE, 0)

NaiveDateTime(y, mo, d, h) == DateTime(y, mo, d, h, FALSE, 0)

IsLeap(y) == y % 4 = 0 /\ (y % 100 # 0 \/ y % 400 = 0)

DaysInYear(y) == IF IsLeap(y) THEN 366 ELSE 365

DaysInMonth(y, m) ==
    IF m = 2 THEN (IF IsLeap(y) THEN 29 ELSE 28)
    ELSE IF m \in {4, 6, 9, 11} THEN 30 ELSE 31

RECURSIVE DaysBeforeYear(_)
\* days from 1 January 2023 to 1 January of y
DaysBeforeYear(y) ==
    IF y <= 2023 THEN 0 ELSE DaysBeforeYear(y - 1) + DaysInYear(y - 1)

RECURSIVE DaysBeforeMonth(_, _)
\* days from 1 January of y to the first of month m
DaysBeforeMonth(y, m) ==
    IF m <= 1 THEN 0 ELSE DaysBeforeMonth(y, m - 1) + DaysInMonth(y, m - 1)

\* days from 1 January 2023 to the date
Ordinal(y, m, d) == DaysBeforeYear(y) + DaysBeforeMonth(y, m) + d - 1

\* hours from 2023-01-01T00:00 to the datetime's wall time
WallHours(dt) == Ordinal(dt.year, dt.month, dt.day) * 24 + dt.hour

\* the instant of an aware datetime: hours from 2023-01-01T00:00Z
Timestamp(dt) == WallHours(dt) - dt.utcoffset

RECURSIVE YearAt(_, _)
YearAt(days, y) ==
    IF days < DaysInYear(y) THEN y ELSE YearAt(days - DaysInYear(y), y + 1)

RECURSIVE MonthAt(_, _, _)
MonthAt(y, days, m) ==
    IF days < DaysInMonth(y, m) THEN m
    ELSE MonthAt(y, days - DaysInMonth(y, m), m + 1)

\* the datetime whose wall time is h hours from 2023-01-01T00:00
FromWallHours(h, aware, off) ==
    LET days == h \div 24
        y == YearAt(days, 2023)
        inYear == days - DaysBeforeYear(y)
        m == MonthAt(y, inYear, 1)
    IN  DateTime(y, m, inYear - DaysBeforeMonth(y, m) + 1, h % 24, aware, off)

\* datetime.now(tz.UTC), the clock reading c
UtcNow(c) == FromWallHours(c, TRUE, 0)

\* tz.gettz("Pacific/Auckland"): the zone's offset before the first
\* transition of the table, and its transitions in UTC with the offset each
\* one starts
Pacific ==
    [before |-> 13,
     transitions |->
        << [at |-> Utc(2023, 4, 1, 14), utcoffset |-> 12],
           [at |-> Utc(2023, 9, 23, 14), utcoffset |-> 13],
           [at |-> Utc(2024, 4, 6, 14), utcoffset |-> 12],
           [at |-> Utc(2024, 9, 28, 14), utcoffset |-> 13],
           [at |-> Utc(2025, 4, 5, 14), utcoffset |-> 12],
           [at |-> Utc(2025, 9, 27, 14), utcoffset |-> 13] >>]

\* a zone that keeps New Zealand standard time all year
PacificFixed == [before |-> 12, transitions |-> <<>>]

\* the zone's utcoffset at an instant: that of the last transition not after it
utcoffset(zone, instant) ==
    LET past == { i \in 1..Len(zone.transitions) :
                    Timestamp(zone.transitions[i].at) <= instant }
    IN  IF past = {} THEN zone.before
        ELSE zone.transitions[CHOOSE i \in past : \A j \in past : j <= i].utcoffset

\* dt.astimezone(zone), dt aware
astimezone(dt, zone) ==
    LET off == utcoffset(zone, Timestamp(dt))
    IN  FromWallHours(Timestamp(dt) + off, TRUE, off)

\* dt.isoformat(): the numbers of the text, in order
isoformat(dt) ==
    IF dt.aware THEN <<dt.year, dt.month, dt.day, dt.hour, dt.utcoffset>>
    ELSE <<dt.year, dt.month, dt.day, dt.hour>>

\* parser.parse(text), the text given by its numbers: <<the datetime>>, or
\* <<>> when it raises ValueError (no date in the text, a month or a day
\* that does not exist)
parse(text) ==
    IF /\ Len(text) \in {4, 5}
       /\ text[2] \in 1..12
       /\ text[3] \in 1..DaysInMonth(text[1], text[2])
       /\ text[4] \in 0..23
    THEN <<DateTime(text[1], text[2], text[3], text[4], Len(text) = 5,
                    IF Len(text) = 5 THEN text[5] ELSE 0)>>
    ELSE <<>>

\* ---- published_date
\* What published_date may be: None, a datetime, a str.
NoDate == [kind |-> "None", dt |-> Utc(2023, 1, 1, 0), text |-> <<>>]

ADateTime(dt) == [kind |-> "datetime", dt |-> dt, text |-> <<>>]

AString(text) == [kind |-> "str", dt |-> Utc(2023, 1, 1, 0), text |-> text]

\* Article.__init__: self.published_date, the clock reading c
StoredDate(published_date, c) ==
    IF published_date.kind = "None" THEN ADateTime(UtcNow(c)) ELSE published_date

\* Article.to_dict: pub_date, the clock reading c
PubDate(published_date, zone, c) ==
    LET parsed == IF published_date.kind = "datetime" THEN <<published_date.dt>>
                  ELSE IF published_date.kind = "str" THEN parse(published_date.text)
                  ELSE <<>>
        dt == IF parsed = <<>> THEN UtcNow(c) ELSE parsed[1]
        aware == IF dt.aware THEN dt ELSE [dt EXCEPT !.aware = TRUE, !.utcoffset = 0]
    IN  isoformat(astimezone(aware, zone))

\* the zone to_dict converts to, were it fixed at +12:00
GettzFixed == PacificFixed

\* the zone to_dict converts to
Gettz == Pacific

\* the dict Article.to_dict returns
ToWire(a, c) ==
    [title |-> a.title, description |-> a.description,
     publishedDate |-> PubDate(a.published_date, Gettz, c)] @@ to_dict(a)

\* ---- inputs
DateTimes ==
    { Utc(2024, 1, 1, 0), Utc(2024, 4, 6, 13), Utc(2024, 4, 6, 14),
      Utc(2024, 9, 28, 13), Utc(2024, 9, 28, 14), Utc(2024, 7, 1, 12),
      Utc(2024, 12, 31, 12), Utc(2024, 2, 29, 11),
      NaiveDateTime(2024, 1, 1, 0), NaiveDateTime(2024, 4, 6, 14),
      DateTime(2024, 1, 1, 13, TRUE, 13), DateTime(2024, 6, 30, 19, TRUE, 0 - 5) }

ParsableStrings ==
    { <<2024, 1, 1, 0>>, <<2024, 9, 28, 14, 0>>, <<2024, 4, 7, 2, 12>> }

UnparsableStrings == { <<>>, <<2024, 13, 1, 0>>, <<2024, 2, 30, 0>> }

PublishedDates ==
    {NoDate} \cup { ADateTime(dt) : dt \in DateTimes }
    \cup { AString(t) : t \in ParsableStrings \cup UnparsableStrings }

\* titles and urls handed to _is_valid_article
Texts == { <<>>, Blank, Rep(" ", 2), Title1, Pad(Title1), Title2 }

\* clock readings at the start: an hour before New Zealand's daylight saving
\* ends in 2024, and midday UTC on 1 July 2024
Clocks == { Timestamp(Utc(2024, 4, 6, 13)), Timestamp(Utc(2024, 7, 1, 12)) }

\* ---- the life of one Article
\* a title, a url and a published_date are at hand
InitArticle ==
    /\ InitOrchestrator
    /\ ScraperIdle
    /\ AnalyzerIdle
    /\ OthersIdle
    /\ mode = "once"
    /\ \E t \in Texts, u \in Texts, p \in PublishedDates, c \in Clocks :
         /\ given = [title |-> t, url |-> u, published_date |-> p, clock |-> c]
         /\ now = c
    /\ apc = "args"
    /\ valid = FALSE
    /\ made = <<>>
    /\ wire = <<>>

\* time passes
Tick ==
    /\ apc \in {"args", "checked", "built"}
    /\ now < given.clock + MaxTicks
    /\ now' = now + 1
    /\ UNCHANGED <<given, apc, valid, made, wire>>
    /\ UNCHANGED besidesSerializing

\* self._is_valid_article(title, url)
Validate ==
    /\ apc = "args"
    /\ valid' = is_valid_article(given.title, given.url)
    /\ apc' = "checked"
    /\ UNCHANGED <<given, made, now, wire>>
    /\ UNCHANGED besidesSerializing

\* `if not self._is_valid_article(title, url): return None`, or
\* self._create_article(...)
Construct ==
    /\ apc = "checked"
    /\ IF valid
       THEN /\ made' = [published_date |-> StoredDate(given.published_date, now)]
                       @@ create_article(given.title, given.title, given.url)
            /\ apc' = "built"
       ELSE /\ apc' = "None"
            /\ UNCHANGED made
    /\ UNCHANGED <<given, valid, now, wire>>
    /\ UNCHANGED besidesSerializing

\* article.to_dict()
ToDict ==
    /\ apc = "built"
    /\ Len(wire) < MaxCalls
    /\ wire' = Append(wire, ToWire(made, now))
    /\ UNCHANGED <<given, apc, valid, made, now>>
    /\ UNCHANGED besidesSerializing

NextArticle ==
    \/ Tick
    \/ Validate
    \/ Construct
    \/ ToDict

\* one Article validated, constructed and serialized
SpecArticle == InitArticle /\ [][NextArticle]_vars

\* ------------------------------------------------------------------ sentiment
\* _WORD_RE: a word has at least three characters
MinWordLen == 3

\* _extract_candidate_words' limit
CandidateLimit == 30

\* the confidence a ranked word needs, in hundredths
MinConfidence == 60

\* the `[:8]` of _classify_words_with_sentiment_model
TermCap == 8

\* ---- words
Fine == Str(<<"f", "i", "n", "e">>)

FineCapital == Str(<<"F", "i", "n", "e">>)

Safe == Str(<<"s", "a", "f", "e">>)

Loss == Str(<<"l", "o", "s", "s">>)

Fall == Str(<<"f", "a", "l", "l">>)

Sole == Str(<<"s", "o", "l", "e">>)

Lane == Str(<<"l", "a", "n", "e">>)

Also == Str(<<"a", "l", "s", "o">>)

No == Str(<<"n", "o">>)

\* yes, yess, yesss, ...
Yes(i) == Concat(Str(<<"y", "e">>), Rep("s", i))

\* _STOP_WORDS, as far as the words above go
StopWords == { Also, Str(<<"a", "l", "l">>) }

InSeq(x, seq) == \E i \in 1..Len(seq) : seq[i] = x

RECURSIVE CandidatesFrom(_, _, _)
\* the loop of _extract_candidate_words over the tokens of text.lower()
CandidatesFrom(tokens, words, limit) ==
    IF tokens = <<>> THEN words
    ELSE LET token == Lower(Head(tokens))
         IN  IF StrLen(token) < MinWordLen \/ token \in StopWords \/ InSeq(token, words)
             THEN CandidatesFrom(Tail(tokens), words, limit)
             ELSE IF Len(words) + 1 >= limit THEN Append(words, token)
             ELSE CandidatesFrom(Tail(tokens), Append(words, token), limit)

\* _extract_candidate_words(text)
extract_candidate_words(text) == CandidatesFrom(text, <<>>, CandidateLimit)

RECURSIVE FromKeys(_, _)
FromKeys(items, keys) ==
    IF items = <<>> THEN keys
    ELSE FromKeys(Tail(items),
                  IF InSeq(Head(items), keys) THEN keys ELSE Append(keys, Head(items)))

\* list(dict.fromkeys(items))
Dedup(items) == FromKeys(items, <<>>)

\* ---- the remote model
\* one element of a text_classification result
Top(label, score) == [label |-> label, score |-> score]

\* str(top.label).lower()
LowerLabel(label) ==
    CASE label = "POSITIVE" -> "positive"
      [] label = "Negative" -> "negative"
      [] label = "LABEL_2" -> "label_2"
      [] OTHER -> label

\* what text_classification did: raised, or returned out
ClassifierRaised == [raised |-> TRUE, out |-> <<>>]

Answer(out) == [raised |-> FALSE, out |-> out]

\* what the model answers for the whole text
TextAnswers ==
    { <<>>, <<Top("POSITIVE", 97)>>, <<Top("Negative", 80), Top("neutral", 15)>>,
      <<Top("LABEL_2", 90)>> }

\* what the model answers for one word
Lexicon(word) ==
    IF word = Fine THEN <<Top("POSITIVE", 90), Top("neutral", 10)>>
    ELSE IF word = Safe THEN <<Top("positive", 70)>>
    ELSE IF word = Loss THEN <<Top("Negative", 95)>>
    ELSE IF word = Fall THEN <<Top("negative", 60)>>
    ELSE IF word = Sole THEN <<Top("positive", 59)>>
    ELSE IF word = Lane THEN <<Top("neutral", 88)>>
    ELSE IF word[1].c = "y" THEN <<Top("positive", 60 + StrLen(word))>>
    ELSE <<>>

\* what a text_classification call may do, the model's answer being out and
\* the classifier being down (every call raises), up, or flaky
ClassifierOutcomes(classifier, out) ==
    (IF classifier \in {"down", "flaky"} THEN {ClassifierRaised} ELSE {})
    \cup (IF classifier \in {"up", "flaky"} THEN {Answer(out)} ELSE {})

\* a value of the parsed JSON object: no such key, a list of words, a number
NoKey == [t |-> "missing", l |-> <<>>]

WordList(l) == [t |-> "list", l |-> l]

Number == [t |-> "int", l |-> <<>>]

\* ... null, a string (its items are its characters), a list of numbers,
\* and a list that holds a list
NullValue == [t |-> "null", l |-> <<>>]

RECURSIVE Chars(_)
Chars(s) ==
    IF s = <<>> THEN <<>>
    ELSE [i \in 1..Head(s).n |-> Rep(Head(s).c, 1)] \o Chars(Tail(s))

StringValue(s) == [t |-> "str", l |-> Chars(s)]

\* the JSON number n as an item: n marks, which no word holds
JsonNumber(n) == Rep("#", n)

NumberList(l) == [t |-> "numbers", l |-> l]

NestedList(l) == [t |-> "nested", l |-> l]

\* dict.fromkeys(v) returns: v is iterable and its items are hashable
Iterates(v) == v.t \in {"list", "str", "numbers"}

\* what text_generation did: raised ("raise"); returned text with no JSON
\* object in it, or None ("prose"); returned text whose braces hold no valid
\* JSON ("broken"); returned text with an object of these two values
Generation(kind, positive_words, negative_words) ==
    [kind |-> kind, positive_words |-> positive_words,
     negative_words |-> negative_words]

GenerationObject(positive_words, negative_words) ==
    Generation("object", positive_words, negative_words)

Generations ==
    { Generation("raise", NoKey, NoKey), Generation("prose", NoKey, NoKey),
      Generation("broken", NoKey, NoKey),
      GenerationObject(NullValue, WordList(<<Loss>>)),
      GenerationObject(NumberList(<<JsonNumber(1), JsonNumber(2)>>), WordList(<<>>)),
      GenerationObject(WordList(<<>>), StringValue(Fall)),
      GenerationObject(NestedList(<<Fine, <<>>>>), NoKey),
      GenerationObject(NoKey, NoKey),
      GenerationObject(WordList(<<>>), WordList(<<>>)),
      GenerationObject(WordList(<<Fine, Safe>>), WordList(<<>>)),
      GenerationObject(NoKey, WordList(<<Loss>>)),
      GenerationObject(WordList(<<Fine, Fine, Safe, Fine>>), WordList(<<Loss, Fall, Loss>>)),
      GenerationObject(WordList(<<FineCapital>>), WordList(<<>>)),
      GenerationObject(WordList([i \in 1..(TermCap + 1) |-> Yes(i)]), WordList(<<>>)),
      GenerationObject(WordList(<<Fine>>), Number),
      GenerationObject(Number, WordList(<<Loss>>)) }

\* ---- the steps of analyze_text_sentiment_and_terms
\* A title, a description, the text: words and runs of whitespace in order.
IsSpace(token) == token # <<>> /\ Head(token).c = " "

RECURSIVE LStripWords(_)
LStripWords(tokens) ==
    IF tokens = <<>> THEN <<>>
    ELSE IF IsSpace(Head(tokens)) THEN LStripWords(Tail(tokens)) ELSE tokens

RECURSIVE RStripWords(_)
RStripWords(tokens) ==
    IF tokens = <<>> THEN <<>>
    ELSE IF IsSpace(tokens[Len(tokens)])
         THEN RStripWords(SubSeq(tokens, 1, Len(tokens) - 1)) ELSE tokens

\* s.strip()
StripWords(tokens) == RStripWords(LStripWords(tokens))

\* f"{title or ''} {description or ''}", nothing stripped
TextOfUnstripped(req) == req.title \o <<Blank>> \o req.description

\* f"{(title or '').strip()} {(description or '').strip()}".strip()
TextOf(req) ==
    StripWords(StripWords(req.title) \o <<Blank>> \o StripWords(req.description))

\* SentimentTerms()
SentimentTerms == DefaultSentiment

\* the locals after the text_classification block
AfterClassification(t, outcome) ==
    IF outcome.raised \/ outcome.out = <<>> THEN t
    ELSE [t EXCEPT !.label = LowerLabel(outcome.out[1].label),
                   !.score = outcome.out[1].score,
                   !.confidence = outcome.out[1].score]

\* data.get(key, []), the key's value being v
DataGet(v) == IF v.t = "missing" THEN WordList(<<>>) ELSE v

\* the locals after the text_generation block: an exception leaves the block
\* where it is raised
AfterGeneration(t, gen) ==
    IF gen.kind # "object" THEN t
    ELSE LET pos == DataGet(gen.positive_words)
             neg == DataGet(gen.negative_words)
         IN  IF ~Iterates(pos) THEN t
             ELSE IF ~Iterates(neg) THEN [t EXCEPT !.positive_words = Dedup(pos.l)]
             ELSE [t EXCEPT !.positive_words = Dedup(pos.l),
                            !.negative_words = Dedup(neg.l)]

\* the text_generation block raises: the call does, or dict.fromkeys does
GenerationRaises(gen) ==
    \/ gen.kind = "raise"
    \/ gen.kind = "object"
         /\ (~Iterates(DataGet(gen.positive_words))
              \/ ~Iterates(DataGet(gen.negative_words)))

\* the text_generation block without `with suppress(Exception)`
GenerationExceptEscapes == "raised"

\* what the `with suppress(Exception)` of the text_generation block does
\* with an exception
GenerationExcept == "suppressed"

\* `not positive_words or not negative_words`
FallbackNeededEither(positive_words, negative_words) ==
    positive_words = <<>> \/ negative_words = <<>>

\* `not positive_words and not negative_words`
FallbackNeeded(positive_words, negative_words) ==
    positive_words = <<>> /\ negative_words = <<>>

\* where a failed text_classification call would leave the analysis, were
\* it not suppressed
ClassifyEscapes == "raised"

\* where a failed text_classification call of step 1 leaves the analysis
ClassifySuppressed == "extract"

\* one pass of the per-word loop's body
RankWord(r, word, outcome) ==
    IF outcome.raised \/ outcome.out = <<>> THEN r
    ELSE LET label == LowerLabel(outcome.out[1].label)
             confidence == outcome.out[1].score
             item == [confidence |-> confidence, word |-> word]
         IN  IF confidence < MinConfidence THEN r
             ELSE IF label = "positive"
                  THEN [r EXCEPT !.positive = Append(@, item)]
             ELSE IF label = "negative"
                  THEN [r EXCEPT !.negative = Append(@, item)]
             ELSE r

RECURSIVE SortRanked(_)
\* items.sort(key=confidence, reverse=True): stable
SortRanked(items) ==
    IF items = <<>> THEN <<>>
    ELSE LET rest == SortRanked(SubSeq(items, 1, Len(items) - 1))
             last == items[Len(items)]
             ahead == { i \in 1..Len(rest) : rest[i].confidence >= last.confidence }
             n == Cardinality(ahead)
         IN  SubSeq(rest, 1, n) \o <<last>> \o SubSeq(rest, n + 1, Len(rest))

\* [w for _, w in items[:8]]
TopWords(items) ==
    LET sorted == SortRanked(items)
        n == IF Len(sorted) < TermCap THEN Len(sorted) ELSE TermCap
    IN  [i \in 1..n |-> sorted[i].word]

\* ---- inputs
Request(title, description, classifier) ==
    [title |-> title, description |-> description, classifier |-> classifier]

\* titles and descriptions with a few candidate words
ShortTexts ==
    { <<<<>>, <<>>>>,
      <<<<FineCapital, Also, No, Fine, Loss>>, <<>>>>,
      <<<<Safe>>, <<Fall, Sole, Lane>>>>,
      <<<<Blank>>, <<No, Also, Blank>>>>,
      <<<<Blank>>, <<Blank, Blank>>>> }

\* titles and descriptions with more positive words than TermCap, and more
\* words than CandidateLimit
LongTexts ==
    { <<[i \in 1..(TermCap + 1) |-> Yes(i)], <<Loss>>>>,
      <<<<Loss>>, [i \in 1..(CandidateLimit + 1) |-> Yes(i)]>> }

Requests ==
    { Request(t[1], t[2], c) : t \in ShortTexts, c \in {"down", "up", "flaky"} }
    \cup { Request(t[1], t[2], c) : t \in LongTexts, c \in {"down", "up"} }

\* analyze_text_sentiment_and_terms is called
InitAnalyze ==
    /\ InitOrchestrator
    /\ ScraperIdle
    /\ ArticleIdle
    /\ OthersIdle
    /\ mode = "once"
    /\ request \in Requests
    /\ tpc = "start"
    /\ terms = SentimentTerms
    /\ generated = NoGeneration
    /\ ranked = NoRanked
    /\ wi = 1
    /\ tally = NoTally

\* `if not text: return SentimentTerms()`
EmptyText ==
    /\ tpc = "start"
    /\ tpc' = IF TextOf(request) = <<>> THEN "done" ELSE "classify"
    /\ UNCHANGED <<request, terms, generated, ranked, wi, tally>>
    /\ UNCHANGED besidesAnalyzing

\* 1) the text_classification call for the text
ClassifyText ==
    /\ tpc = "classify"
    /\ \E answer \in TextAnswers :
         \E outcome \in ClassifierOutcomes(request.classifier, answer) :
            /\ terms' = AfterClassification(terms, outcome)
            /\ tpc' = IF outcome.raised THEN ClassifySuppressed ELSE "extract"
            /\ tally' = [tally EXCEPT !.calls = @ + 1,
                            !.answers = @ + (IF outcome.raised THEN 0 ELSE 1)]
    /\ UNCHANGED <<request, generated, ranked, wi>>
    /\ UNCHANGED besidesAnalyzing

\* 2) the text_generation call, and the test that follows it
ExtractTerms ==
    /\ tpc = "extract"
    /\ \E gen \in Generations :
         LET after == AfterGeneration(terms, gen)
         IN  /\ generated' = gen
             /\ terms' = after
             /\ tpc' = IF GenerationRaises(gen) /\ GenerationExcept # "suppressed"
                       THEN "raised"
                       ELSE IF FallbackNeeded(after.positive_words,
                                              after.negative_words)
                       THEN "words" ELSE "done"
    /\ UNCHANGED <<request, ranked, wi, tally>>
    /\ UNCHANGED besidesAnalyzing

\* one pass of `for word in _extract_candidate_words(text)`
ClassifyWord ==
    /\ tpc = "words"
    /\ wi <= Len(extract_candidate_words(TextOf(request)))
    /\ LET word == extract_candidate_words(TextOf(request))[wi]
       IN  \E outcome \in ClassifierOutcomes(request.classifier, Lexicon(word)) :
             /\ ranked' = RankWord(ranked, word, outcome)
             /\ tally' = [tally EXCEPT !.calls = @ + 1, !.word_calls = @ + 1,
                             !.answers = @ + (IF outcome.raised THEN 0 ELSE 1)]
    /\ wi' = wi + 1
    /\ UNCHANGED <<request, tpc, terms, generated>>
    /\ UNCHANGED besidesAnalyzing

\* the loop is over: sort, cut, return
ReturnRanked ==
    /\ tpc = "words"
    /\ wi > Len(extract_candidate_words(TextOf(request)))
    /\ terms' = [terms EXCEPT !.positive_words = TopWords(ranked.positive),
                              !.negative_words = TopWords(ranked.negative)]
    /\ tpc' = "done"
    /\ UNCHANGED <<request, generated, ranked, wi, tally>>
    /\ UNCHANGED besidesAnalyzing

NextAnalyze ==
    \/ EmptyText
    \/ ClassifyText
    \/ ExtractTerms
    \/ ClassifyWord
    \/ ReturnRanked

\* one analyze_text_sentiment_and_terms call
SpecAnalyze == InitAnalyze /\ [][NextAnalyze]_vars

\* ------------------------------------------------------------------ extract_content
\* extract_content's default max_chars
DefaultMaxChars == 20000

RECURSIVE SingleSpaces(_)
SingleSpaces(s) ==
    IF s = <<>> THEN <<>>
    ELSE <<Run(Head(s).c, IF Head(s).c = " " THEN 1 ELSE Head(s).n)>>
         \o SingleSpaces(Tail(s))

\* _clean_text: ' '.join(s.split())
clean_text(s) == SingleSpaces(Strip(s))

RECURSIVE JoinStripped(_)
\* the non-blank text nodes, each stripped, joined by ' '
JoinStripped(nodes) ==
    IF nodes = <<>> THEN <<>>
    ELSE IF Strip(Head(nodes)) = <<>> THEN JoinStripped(Tail(nodes))
    ELSE IF JoinStripped(Tail(nodes)) = <<>> THEN Strip(Head(nodes))
    ELSE Concat(Concat(Strip(Head(nodes)), Blank), JoinStripped(Tail(nodes)))

\* element.get_text(separator=' ', strip=True), an element being the
\* sequence of its text nodes
get_text(element) == JoinStripped(element)

\* soup.find found no element
NoElement == [found |-> FALSE, nodes |-> <<>>]

Element(nodes) == [found |-> TRUE, nodes |-> nodes]

\* bool(tag) of what soup.find returned: a Tag is true whatever it holds,
\* None is false
TagTruthy(elem) == elem.found

RECURSIVE Largest(_, _)
\* the loop over candidates: the first of the longest texts
Largest(candidates, best) ==
    IF candidates = <<>> THEN best
    ELSE Largest(Tail(candidates),
                 IF StrLen(get_text(Head(candidates))) > StrLen(best)
                 THEN get_text(Head(candidates)) ELSE best)

\* the value None, and a str returned
None == [none |-> TRUE, text |-> <<>>]

Text(s) == [none |-> FALSE, text |-> s]

\* the second try block for a parsed page and max_chars
ExtractFrom(page, max_chars) ==
    IF TagTruthy(page.main)
    THEN Text(Prefix(clean_text(get_text(page.main.nodes)), max_chars))
    ELSE LET best == Largest(page.candidates, <<>>)
             combined == Strip(clean_text(Concat(Concat(page.title, Blank),
                                                 page.meta)))
         IN  IF best # <<>>
             THEN Text(Prefix(clean_text(best), max_chars))
             ELSE IF combined # <<>> THEN Text(Prefix(combined, max_chars))
             ELSE None

\* texts of a page: none, blanks, words with blanks around and between them,
\* texts about as long as the default max_chars
Long(n) == Concat(Concat(Rep("x", n - 3), Rep(" ", 2)), Rep("y", 3))

PageTexts ==
    { <<>>, Rep(" ", 2),
      Concat(Concat(Rep(" ", 1), Rep("x", 2)), Concat(Rep(" ", 3), Rep("y", 1))) }
    \cup { Long(n) : n \in (DefaultMaxChars - 1)..(DefaultMaxChars + MaxTextExcess) }

Page(main, candidates, title, meta, parses) ==
    [main |-> main, candidates |-> candidates, title |-> title, meta |-> meta,
     parses |-> parses]

\* pages: with an <article> or <main> element of no, one or two text nodes;
\* without one, with div/section/p elements; with neither, with a title
Pages27 ==
    { Page(Element(nodes), <<>>, <<>>, <<>>, ok) :
        nodes \in {<<>>} \cup { <<t>> : t \in PageTexts }
                  \cup { <<t, Rep("z", 1)>> : t \in PageTexts },
        ok \in BOOLEAN }
    \cup { Page(NoElement, <<<<t>>, <<u>>>>, <<>>, <<>>, TRUE) :
             t \in PageTexts, u \in {<<>>, Rep("q", 4)} }
    \cup { Page(NoElement, <<>>, t, u, TRUE) :
             t \in {<<>>, Rep("t", 2)}, u \in {<<>>, Rep(" ", 1), Rep("m", 3)} }

\* what requests.get and raise_for_status do
Fetches == {"ConnectionError", "Timeout", "HTTPError", "ok"}

InitExtract ==
    /\ InitOrchestrator
    /\ ScraperIdle
    /\ ArticleIdle
    /\ AnalyzerIdle
    /\ SchedulerIdle
    /\ mode = "once"
    /\ called \in { [fn |-> "extract_content", fetch |-> f, page |-> pg,
                     max_chars |-> DefaultMaxChars] :
                      f \in Fetches, pg \in Pages27 }
    /\ cpc = "start"
    /\ ret = [raised |-> FALSE, value |-> None]

\* the first try block: requests.get, raise_for_status, resp.text
FetchPage ==
    /\ cpc = "start"
    /\ cpc' = IF called.fetch = "ok" THEN "parse" ELSE "done"
    /\ ret' = [raised |-> FALSE, value |-> None]
    /\ UNCHANGED called
    /\ UNCHANGED besidesCalling

\* the second try block; an exception in it gives None
ParsePage ==
    /\ cpc = "parse"
    /\ ret' = [raised |-> FALSE,
               value |-> IF called.page.parses
                         THEN ExtractFrom(called.page, called.max_chars)
                         ELSE None]
    /\ cpc' = "done"
    /\ UNCHANGED called
    /\ UNCHANGED besidesCalling

NextExtract == FetchPage \/ ParsePage

SpecExtract == InitExtract /\ [][NextExtract]_vars

\* ------------------------------------------------------------------ the article link
\* An href is a str whose characters may also be the site's origin and the
\* fragments of the blocklist, each standing for the characters it spells.
Origin == "https://www.nzherald.co.nz"

\* `any(x in href for x in [...])`: the fragments looked for
Blocklist ==
    { "/photo-sales", "/about-", "/help-", "/terms", "/privacy", "/subscribe",
      "/newsletters", "/connect/", "/topic/", "/section/" }

\* the characters a character of an href stands for
Width(c) ==
    CASE c = Origin -> 26
      [] c = "/photo-sales" -> 12
      [] c = "/newsletters" -> 12
      [] c \in {"/subscribe", "/section/"} -> IF c = "/subscribe" THEN 10 ELSE 9
      [] c = "/connect/" -> 9
      [] c = "/privacy" -> 8
      [] c \in {"/about-", "/topic/"} -> 7
      [] c \in {"/help-", "/terms"} -> 6
      [] OTHER -> 1

RECURSIVE HrefLen(_)
\* len(href)
HrefLen(href) ==
    IF href = <<>> THEN 0
    ELSE Head(href).n * Width(Head(href).c) + HrefLen(Tail(href))

\* the least length of an href taken for an article's
MinHrefLen == 80

\* any(x in href for x in [...])
Blocked(href) == \E i \in 1..Len(href) : href[i].c \in Blocklist

\* longest_href.startswith('/')
StartsWithSlash(href) ==
    href # <<>> /\ Head(href).c \in Blocklist \cup {"/"}

\* the f-string that makes the URL absolute
Absolute(href) ==
    IF StartsWithSlash(href) THEN Concat(Rep(Origin, 1), href) ELSE href

\* `if len(href) > max_len`
Longer(href, max_len) == HrefLen(href) > max_len

\* hrefs of n characters: with the origin, from the root, from the current
\* path, through a blocklisted fragment
AbsoluteHref(n, c) == Concat(Concat(Rep(Origin, 1), Rep("/", 1)), Rep(c, n - 27))

RootHref(n, c) == Concat(Rep("/", 1), Rep(c, n - 1))

PathHref(n, c) == Concat(Concat(Rep(c, n - 3), Rep("/", 1)), Rep(c, 2))

TopicHref(n, c) == Concat(Concat(Rep("/topic/", 1), Rep(c, n - 8)), Rep("/", 1))

Hrefs ==
    { <<>>, RootHref(MinHrefLen - 1, "a"), RootHref(MinHrefLen, "a"),
      RootHref(MinHrefLen, "b"), AbsoluteHref(MinHrefLen + 5, "a"),
      TopicHref(MinHrefLen + 10, "a"), PathHref(MinHrefLen + 1, "a") }

\* the <a href=...> elements of an <article> element, in document order
Containers == UNION { [1..n -> Hrefs] : n \in 0..MaxLinks }

NoLink == [i |-> 1, longest_link |-> 0, longest_href |-> <<>>, max_len |-> 0,
           url |-> <<>>, none |-> FALSE]

InitLinks ==
    /\ InitOrchestrator
    /\ ScraperIdle
    /\ ArticleIdle
    /\ AnalyzerIdle
    /\ SchedulerIdle
    /\ mode = "once"
    /\ called \in { [fn |-> "_extract_article_from_element", links |-> l] :
                      l \in Containers }
    /\ cpc = "links"
    /\ ret = NoLink

\* one pass of `for link in article_links`
NextLink ==
    /\ cpc = "links"
    /\ ret.i <= Len(called.links)
    /\ LET href == called.links[ret.i]
       IN  IF href = <<>> \/ HrefLen(href) < MinHrefLen \/ Blocked(href)
              \/ ~Longer(href, ret.max_len)
           THEN ret' = [ret EXCEPT !.i = @ + 1]
           ELSE ret' = [ret EXCEPT !.i = @ + 1, !.max_len = HrefLen(href),
                                   !.longest_link = ret.i,
                                   !.longest_href = href]
    /\ UNCHANGED <<called, cpc>>
    /\ UNCHANGED besidesCalling

\* after the loop: None without a link, else the URL is made absolute
LinkChosen ==
    /\ cpc = "links"
    /\ ret.i > Len(called.links)
    /\ IF ret.longest_href = <<>> \/ ret.longest_link = 0
       THEN ret' = [ret EXCEPT !.none = TRUE]
       ELSE ret' = [ret EXCEPT !.url = Absolute(ret.longest_href)]
    /\ cpc' = "done"
    /\ UNCHANGED called
    /\ UNCHANGED besidesCalling

NextLinks == NextLink \/ LinkChosen

SpecLinks == InitLinks /\ [][NextLinks]_vars

\* ------------------------------------------------------------------ claims
\* a part of an entry that is there and not blank
Filled(field) == field.set /\ Strip(field.val) # <<>>

\* an entry of which a feed scraper makes an article
Usable(e) == ~e.fault /\ Filled(e.title) /\ Filled(e.link)

\* an <article> element of which NZHeraldScraper makes an article
UsableContainer(e) == Usable(e) /\ WordCount(Strip(e.title.val)) >= 2

\* the article a is the one made of the entry e
MadeOf(a, e) ==
    /\ a.title = Strip(e.title.val)
    /\ \/ a.url = Strip(e.link.val)
       \/ scraper.kind = "OneNews" /\ Contains(e.link.val, "g") /\ Contains(a.url, "n")

\* C9: scrape() of every registered scraper ends by returning a list, never
\* by raising; the list is empty when the fetch failed or gave no entries;
\* and every entry the loop reaches that has a title and a link is in the
\* list, whatever the entries before and after it did.
C9_ScrapeNeverRaises ==
    /\ spc # "raised"
    /\ spc = "returned" =>
         /\ entries = <<>> => scraped = <<>>
         /\ IsFeedScraper(scraper) =>
              \A i \in 1..Len(entries) :
                i <= FeedLimit /\ Usable(entries[i]) =>
                  \E j \in 1..Len(scraped) : MadeOf(scraped[j], entries[i])
         /\ ~IsFeedScraper(scraper) /\ Len(scraped) < scraper.max_articles =>
              \A i \in 1..Len(entries) :
                UsableContainer(entries[i]) =>
                  \E j \in 1..Len(scraped) : scraped[j].url = entries[i].link.val

\* C9 witness: a feed scraper has returned the article of the second entry
\* of a feed whose first entry raised.
C9_Witness ==
    /\ spc = "returned"
    /\ IsFeedScraper(scraper)
    /\ Len(entries) = 2
    /\ entries[1].fault
    /\ Usable(entries[2])
    /\ Len(scraped) = 1

\* the links of the usable entries among the first n
RECURSIVE UsableLinks(_, _)
UsableLinks(feed, n) ==
    IF feed = <<>> \/ n <= 0 THEN <<>>
    ELSE (IF Usable(Head(feed)) THEN <<Strip(Head(feed).link.val)>> ELSE <<>>)
         \o UsableLinks(Tail(feed), n - 1)

CycleDone == summary.returned

\* create_articles_batch has been called for the current scraper and is over
BatchCallOver == posts = 1 /\ pc \in {"accumulate", "except"}

\* C1: when a scraper's scrape() raises, every scraper of the list is still
\* invoked, every one that returned articles has them enriched and POSTed,
\* and neither the raise nor its handling changes any of the three counters.
C1_ScraperFailureIsolated ==
    /\ [](/\ CycleDone /\ n_raised > 0 =>
               n_invoked = NumScrapers /\ n_submitted = n_nonempty
          /\ pc = "batch" /\ n_raised > 0 =>
               \A i \in 1..Len(articles) : articles[i].analyzed)
    /\ [][n_raised' > n_raised \/ pc = "except" => UNCHANGED counters]_vars

\* C1 witness: a cycle is over in which one scrape() raised and another
\* scraper's articles were POSTed and counted.
C1_Witness ==
    CycleDone /\ n_raised = 1 /\ n_submitted = 1 /\ summary.scraped > 0

\* C2 as claimed: when scrape_all returns, scraped is the sum of the lengths
\* of the returned lists, added and skipped are the sums of the batch results'
\* fields, and every source counted in scraped is accumulated in both.
C2_CountersAreSums ==
    CycleDone =>
        /\ summary.scraped = ret_total
        /\ summary.added = res_added
        /\ summary.skipped = res_skipped
        /\ n_added = n_nonempty
        /\ n_skipped = n_nonempty

\* C3: for the current scraper at most one batch POST is made; its body holds
\* the articles scrape() returned, in the order returned; none is made for an
\* empty list or a raise; and once the articles of a non-empty list are
\* processed, exactly one has been made.
C3_OneBatchPerSource ==
    /\ posts <= 1
    /\ posts = 1 => returned # <<>>
    /\ pc = "posting" => Urls(inflight) = returned
    /\ returned # <<>> /\ pc \notin {"enrich", "gate", "test", "extract", "batch"}
         => posts = 1

\* C3 witness: a list of two articles is being POSTed.
C3_Witness == pc = "posting" /\ Len(inflight) = 2 /\ posts = 1

C5_BatchNeverRaises == ~result.raised

\* C6: no exception leaves scrape_all, whatever the scrapers, the enricher,
\* the extractor and the backend do; a call that is over has returned the
\* summary of the three counters, and in scheduled mode the process then
\* waits for the next run.
C6_NoExceptionEscapes ==
    /\ pc # "crashed"
    /\ pc \in {"exited", "waiting"} =>
         /\ summary = [returned |-> TRUE, scraped |-> total_scraped,
                       added |-> total_added, skipped |-> total_skipped]
         /\ n_invoked = NumScrapers
    /\ faulted /\ mode = "scheduled" /\ CycleDone => pc = "waiting" /\ ENABLED StartCycle

\* C6 witness: a scheduled process is waiting for its next run after a cycle
\* in which the handler ran.
C6_Witness == pc = "waiting" /\ faulted /\ mode = "scheduled"

\* C7: an article handed to extract_content had no content; an article that
\* came with content keeps it; one for which extraction returned nothing or
\* raised stays without content; when one article of a source was handed to
\* extract_content, every article of the source without content was; and all
\* the articles returned are in the batch.
C7_ExtractionOnlyFillsEmpty ==
    /\ \A i \in 1..Len(articles) :
         /\ articles[i].fetched # "no" => articles[i].orig = ""
         /\ articles[i].orig # "" => articles[i].content = articles[i].orig
         /\ articles[i].fetched \in {"None", "raise", ""} =>
              articles[i].content = ""
    /\ pc = "batch" =>
         /\ Urls(articles) = returned
         /\ (\E i \in 1..Len(articles) : articles[i].fetched # "no") =>
              \A j \in 1..Len(articles) :
                articles[j].orig = "" => articles[j].fetched # "no"
    /\ pc = "posting" =>
         /\ Urls(inflight) = returned
         /\ \A i \in 1..Len(inflight) : inflight[i].url = i

\* C7 witness: extraction raised for the first article, went on to fill the
\* second, and the batch is about to be sent.
C7_Witness ==
    /\ pc = "batch"
    /\ Len(articles) = 2
    /\ articles[1].fetched = "raise"
    /\ articles[2].fetched = "body"

RECURSIVE CaseVariants(_)
\* the spellings of a word in upper and lower case letters
CaseVariants(chars) ==
    IF chars = <<>> THEN {<<>>}
    ELSE LET c == Head(chars)
             up == CASE c = "a" -> "A" [] c = "e" -> "E" [] c = "f" -> "F"
                     [] c = "l" -> "L" [] c = "n" -> "N" [] c = "o" -> "O"
                     [] c = "s" -> "S" [] OTHER -> c
         IN  { <<x>> \o rest : x \in {c, up}, rest \in CaseVariants(Tail(chars)) }

\* 0, false and no in any case
DisablingValues ==
    { Str(w) : w \in {<<"0">>} \cup CaseVariants(<<"f", "a", "l", "s", "e">>)
                     \cup CaseVariants(<<"n", "o">>) }

\* the toggle has been read and tested, the branch not yet run
ToggleTested == extract_flag.read /\ pc \in {"extract", "batch"}

\* C8 as claimed: extraction is skipped exactly when the variable is set to
\* 0, false or no in any case.
C8_ToggleDisables ==
    ToggleTested =>
        (pc = "batch" <=> extract_flag.set /\ extract_flag.val \in DisablingValues)

\* C8 amended: extraction is skipped exactly when the variable is set to 0,
\* false or no in any case, or to the empty string.
C8_ToggleDisablesAmended ==
    ToggleTested =>
        (pc = "batch" <=>
            /\ extract_flag.set
            /\ extract_flag.val \in DisablingValues \cup {<<>>})

\* C8 witness: the variable is set to the empty string and extraction is
\* skipped.
C8_Witness ==
    ToggleTested /\ extract_flag.set /\ extract_flag.val = <<>> /\ pc = "batch"

\* C11 as claimed: no two articles of the list one scrape() call returns
\* have the same url.
C11_UrlsDistinct ==
    spc = "returned" =>
        \A i, j \in 1..Len(scraped) : i # j => scraped[i].url # scraped[j].url

\* the entries a feed scraper considers
Considered(feed) == SubSeq(feed, 1, IF Len(feed) < FeedLimit THEN Len(feed) ELSE FeedLimit)

\* C12: the list a feed scraper returns holds, in feed order, one article for
\* each considered entry that reads without an exception and whose title and
\* link are not blank, and nothing else: an entry without a title or a link
\* is passed over and the entries after it are still read.
C12_FeedEntriesValidated ==
    spc = "returned" /\ IsFeedScraper(scraper) /\ entries # <<>> =>
        LET usable == SelectSeq(Considered(entries), Usable)
        IN  /\ Len(scraped) = Len(usable)
            /\ \A j \in 1..Len(usable) : MadeOf(scraped[j], usable[j])

\* C12 witness: a feed of three entries, the second without a link, has given
\* the articles of the first, whose title and link are padded, and the third.
C12_Witness ==
    /\ spc = "returned"
    /\ IsFeedScraper(scraper)
    /\ Len(entries) = 3
    /\ entries[1] = Plain(Pad(Title2), Pad(U(1)))
    /\ entries[2].link = Absent
    /\ Usable(entries[3])
    /\ Len(scraped) = 2

\* C13 as claimed: no description of an article a feed scraper returns holds
\* a tag.
C13_DescriptionsHoldNoMarkup ==
    spc = "returned" /\ IsFeedScraper(scraper) =>
        \A j \in 1..Len(scraped) :
            \A i \in 1..Len(scraped[j].description) :
                scraped[j].description[i].c \notin Tags

\* the visible text of a summary, trimmed (nothing for no summary)
VisibleText(field) == IF field.set THEN Strip(GetTextRaw(field.val)) ELSE <<>>

\* C14 as claimed: no article a scraper returns has a blank description, and
\* the article of an entry without a usable summary has its title as
\* description.
C14_DescriptionNeverBlank ==
    spc = "returned" =>
        /\ \A j \in 1..Len(scraped) : Strip(scraped[j].description) # <<>>
        /\ Len(entries) = 1 /\ Len(scraped) = 1 /\ VisibleText(entries[1].summary) = <<>>
             => scraped[1].description = scraped[1].title

\* the text has a character that is not whitespace
NotBlank(s) == \E i \in 1..Len(s) : s[i].c # " "

\* C15: _is_valid_article(title, url) returns true exactly when the title and
\* the url each hold a character that is not whitespace; it returns false for
\* an empty or whitespace-only title or url.
C15_ValidIffBothFilled ==
    apc \in {"checked", "built", "None"} =>
        (valid <=> NotBlank(given.title) /\ NotBlank(given.url))

\* C15 witness: a padded title with a url of two spaces has been rejected.
C15_Witness ==
    /\ apc = "None"
    /\ given.title = Pad(Title1)
    /\ given.url = Rep(" ", 2)
    /\ ~valid

\* day of the week of a date, 0 for Sunday (1 January 2023 was one)
DayOfWeek(y, m, d) == Ordinal(y, m, d) % 7

FirstSunday(y, m) == CHOOSE d \in 1..7 : DayOfWeek(y, m, d) = 0

LastSunday(y, m) ==
    CHOOSE d \in (DaysInMonth(y, m) - 6)..DaysInMonth(y, m) : DayOfWeek(y, m, d) = 0

\* New Zealand's daylight saving ends on the first Sunday of April at 03:00
\* NZDT and starts on the last Sunday of September at 02:00 NZST
DaylightSavingEnds(y) == Ordinal(y, 4, FirstSunday(y, 4)) * 24 + 3 - 13

DaylightSavingStarts(y) == Ordinal(y, 9, LastSunday(y, 9)) * 24 + 2 - 12

InDaylightSaving(instant) ==
    LET y == FromWallHours(instant, TRUE, 0).year
    IN  instant < DaylightSavingEnds(y) \/ instant >= DaylightSavingStarts(y)

\* the stored date is a datetime or a string that parses
HasInstant(p) == p.kind = "datetime" \/ (p.kind = "str" /\ parse(p.text) # <<>>)

\* its instant, a naive one read as UTC
StoredInstant(p) ==
    LET dt == IF p.kind = "datetime" THEN p.dt ELSE parse(p.text)[1]
    IN  IF dt.aware THEN Timestamp(dt) ELSE WallHours(dt)

\* C16: publishedDate is the instant of the stored date (naive read as UTC)
\* as New Zealand wall time with its offset, +13:00 while daylight saving
\* applies at that instant and +12:00 otherwise; 2024-01-01T00:00:00Z gives
\* 2024-01-01T13:00:00+13:00.
C16_PublishedDateInAuckland ==
    \A n \in 1..Len(wire) :
        HasInstant(made.published_date) =>
            LET out == wire[n].publishedDate
                s == StoredInstant(made.published_date)
            IN  /\ Len(out) = 5
                /\ Ordinal(out[1], out[2], out[3]) * 24 + out[4] - out[5] = s
                /\ out[5] = IF InDaylightSaving(s) THEN 13 ELSE 12
                /\ made.published_date = ADateTime(Utc(2024, 1, 1, 0))
                     => out = <<2024, 1, 1, 13, 13>>

\* C16 witness: the instant at which daylight saving ended in 2024 has been
\* serialized as 02:00 on 7 April at +12:00.
C16_Witness ==
    /\ Len(wire) > 0
    /\ made.published_date = ADateTime(Utc(2024, 4, 6, 14))
    /\ wire[1].publishedDate = <<2024, 4, 7, 2, 12>>

\* C17 as claimed: two to_dict calls on an Article that nothing mutated
\* return the same dict, whatever published_date the Article stores.
C17_ToDictIdempotent == Len(wire) >= 2 => wire[1] = wire[2]

\* the analysis is over and no text_classification call of it returned
ClassifierAlwaysFailed == tpc = "done" /\ TextOf(request) # <<>> /\ tally.answers = 0

\* the defaults: neutral, 0.0, 0.0, [], []
AllDefaults ==
    /\ terms.label = "neutral"
    /\ terms.score = 0
    /\ terms.confidence = 0
    /\ terms.positive_words = <<>>
    /\ terms.negative_words = <<>>

\* C18 as claimed: when the classifier fails on every call, the analysis
\* returns neutral, 0.0, 0.0 and two empty lists.
C18_ClassifierDownGivesDefaults ==
    /\ tpc # "raised"
    /\ ClassifierAlwaysFailed => AllDefaults

\* the structured extraction gave no word: the generation call raised, its
\* text held no object, dict.fromkeys raised for the object's positive_words,
\* or positive_words was empty and negative_words gave nothing either
NoTermExtracted ==
    \/ generated.kind # "object"
    \/ ~Iterates(DataGet(generated.positive_words))
    \/ /\ generated.positive_words.l = <<>>
       /\ (generated.negative_words.l = <<>>
            \/ ~Iterates(DataGet(generated.negative_words)))

\* C18 amended: when the classifier fails on every call, the analysis returns
\* neutral, 0.0 and 0.0, and it returns two empty lists when the structured
\* extraction gives no word either.
C18_RemoteDownGivesDefaults ==
    /\ tpc # "raised"
    /\ ClassifierAlwaysFailed /\ NoTermExtracted => AllDefaults
    /\ ClassifierAlwaysFailed =>
         terms.label = "neutral" /\ terms.score = 0 /\ terms.confidence = 0

\* C18 witness: the classifier failed for the text and for each of its
\* candidate words, the generation call failed, and the defaults are returned.
C18_Witness ==
    /\ ClassifierAlwaysFailed
    /\ generated.kind = "raise"
    /\ tally.word_calls >= 2
    /\ AllDefaults

\* the first position of x in l
FirstIndex(l, x) == CHOOSE i \in 1..Len(l) : l[i] = x /\ \A j \in 1..(i - 1) : l[j] # x

\* r holds each element of l once, in the order of first occurrence in l
IsDedupOf(r, l) ==
    /\ \A i, j \in 1..Len(r) : i # j => r[i] # r[j]
    /\ { r[i] : i \in 1..Len(r) } = { l[i] : i \in 1..Len(l) }
    /\ \A i, j \in 1..Len(r) : i < j => FirstIndex(l, r[i]) < FirstIndex(l, r[j])

\* the generation call returned an object whose two values are lists (an
\* absent key counting as the empty list), one of them not empty
ExtractionSucceeded ==
    /\ generated.kind = "object"
    /\ generated.positive_words.t \in {"missing", "list"}
    /\ generated.negative_words.t \in {"missing", "list"}
    /\ generated.positive_words.l # <<>> \/ generated.negative_words.l # <<>>

\* C19: when the structured extraction succeeds with a list that is not
\* empty, the analysis returns those two lists, each element once in order of
\* first occurrence, and makes no per-word classification call; the per-word
\* loop runs only when both lists are empty after the extraction.
C19_StructuredTermsPreferred ==
    /\ tpc = "done" /\ ExtractionSucceeded =>
         /\ IsDedupOf(terms.positive_words, generated.positive_words.l)
         /\ IsDedupOf(terms.negative_words, generated.negative_words.l)
         /\ tally.word_calls = 0
    /\ tpc = "words" =>
         terms.positive_words = <<>> /\ terms.negative_words = <<>>
    /\ tally.word_calls > 0 => NoTermExtracted

\* C19 witness: lists with repeated words have been returned, each word once,
\* with no per-word call.
C19_Witness ==
    /\ tpc = "done"
    /\ generated.positive_words = WordList(<<Fine, Fine, Safe, Fine>>)
    /\ terms.positive_words = <<Fine, Safe>>
    /\ terms.negative_words = <<Loss, Fall>>
    /\ tally.word_calls = 0

\* the list has at most 8 words, all distinct, none with a capital letter
WellFormedTerms(l) ==
    /\ Len(l) <= 8
    /\ \A i, j \in 1..Len(l) : i # j => l[i] # l[j]
    /\ \A i \in 1..Len(l) : \A n \in 1..Len(l[i]) :
         l[i][n].c \notin {"A", "E", "F", "L", "N", "O", "S", "Y"}

\* C20 as claimed: whichever tier gave them, the two lists returned hold at
\* most 8 words each, all distinct and all lowercase.
C20_TermsCappedDistinctLowercase ==
    tpc = "done" =>
        WellFormedTerms(terms.positive_words) /\ WellFormedTerms(terms.negative_words)

\* the candidate words of the text
CandidateWords ==
    { extract_candidate_words(TextOf(request))[i] :
        i \in 1..Len(extract_candidate_words(TextOf(request))) }

\* the list returned for a key holds nothing but candidate words of the text
OnlyCandidates(list) == \A i \in 1..Len(list) : list[i] \in CandidateWords

\* the value of a key is a list of strings, or the key is absent
ListOfStrings(v) == v.t \in {"missing", "list"}

\* C21 as claimed: the analysis never raises; and when the generation call
\* fails, or its text holds no JSON object or malformed JSON, or the value of
\* a key is no list of strings, nothing of that value is returned: the list
\* of that key is empty or comes from the per-word fallback.
C21_AnalysisNeverRaises ==
    /\ tpc # "raised"
    /\ tpc = "done" /\ generated.kind \in {"raise", "prose", "broken"} =>
         OnlyCandidates(terms.positive_words) /\ OnlyCandidates(terms.negative_words)
    /\ tpc = "done" /\ generated.kind = "object" =>
         /\ ~ListOfStrings(generated.positive_words)
              => OnlyCandidates(terms.positive_words)
         /\ ~ListOfStrings(generated.negative_words)
              => OnlyCandidates(terms.negative_words)

\* C22 as claimed: the label returned is positive, negative or neutral and
\* the confidence is between 0 and 1 (100 hundredths).
C22_LabelAndConfidenceInRange ==
    tpc = "done" =>
        /\ terms.label \in {"positive", "negative", "neutral"}
        /\ terms.confidence \in 0..100

\* the title and the description are both empty or whitespace
BlankRequest ==
    \A i \in 1..Len(request.title \o request.description) :
        IsSpace((request.title \o request.description)[i])

\* C23: a title and a description that are both empty or whitespace give
\* neutral, 0.0, 0.0 and two empty lists, and neither text_classification nor
\* text_generation is called.
C23_EmptyTextGivesDefaults ==
    tpc # "start" /\ BlankRequest
        => /\ tpc = "done"
           /\ AllDefaults
           /\ tally.calls = 0
           /\ generated = NoGeneration

\* C23 witness: a whitespace title and description have been answered with
\* the defaults.
C23_Witness ==
    /\ tpc = "done"
    /\ request.title = <<Blank>>
    /\ request.description = <<Blank, Blank>>
    /\ AllDefaults

\* C24 as claimed: every cycle of scrape_all that starts eventually returns
\* its summary, even when a remote endpoint never answers.
C24_CycleCompletes == (pc = "loop") ~> summary.returned

\* a cycle is running
InCycle == rpc \in {"only", "first", "job"}

\* C25 as claimed: in scheduled mode a cycle runs before any waiting; a later
\* cycle starts only at a poll at which the interval has elapsed since the
\* previous cycle; cycles keep recurring; in run-once mode one cycle runs and
\* the process ends.
C25_ScheduledCycles ==
    /\ [](rpc \in {"pending", "sleeping", "job"} => cycles >= 1)
    /\ [](rpc = "job" => since >= interval)
    /\ [](args.scheduled /\ rpc # "main" => <>InCycle)
    /\ [](~args.scheduled => cycles <= 1)
    /\ [](~args.scheduled => <>(rpc = "exited" /\ cycles = 1))

\* C26: create_article returns True exactly when the backend answered 200 or
\* 201; for 409, for any other status and for a transport failure it returns
\* False, and it raises for none of them.
C26_TrueOnlyForCreated ==
    cpc = "done" /\ called.fn = "create_article" =>
        /\ ~ret.result.raised
        /\ ret.result.value =
             (called.server.kind = "http" /\ called.server.status \in {200, 201})

\* C26 witness: a 201 has been answered with True
C26_Witness ==
    /\ cpc = "done"
    /\ called.fn = "create_article"
    /\ called.server.kind = "http"
    /\ called.server.status = 201
    /\ ret.result.value

\* whitespace stands in s only as single spaces between other characters
Collapsed(s) ==
    /\ \A i \in 1..Len(s) : s[i].c = " " => s[i].n = 1
    /\ s # <<>> => s[1].c # " "

\* C27 as claimed: extract_content never raises; it returns None, or a text
\* that is not empty, has at most max_chars characters and holds whitespace
\* only as single spaces; for a failed fetch and for a failed parse it
\* returns None.
C27_AbsentOrCleanText ==
    cpc = "done" /\ called.fn = "extract_content" =>
        /\ ~ret.raised
        /\ \/ ret.value.none
           \/ /\ ret.value.text # <<>>
              /\ StrLen(ret.value.text) <= called.max_chars
              /\ Collapsed(ret.value.text)
        /\ called.fetch # "ok" \/ ~called.page.parses => ret.value.none

\* the five sentiment fields of the article hold what the enricher returned
\* for it
HoldsOwnResult(art) ==
    /\ art.enriched # <<>>
    /\ art.sentiment_label = art.enriched[1].label
    /\ art.sentiment_score = art.enriched[1].score
    /\ art.sentiment_confidence = art.enriched[1].confidence
    /\ art.positive_words = art.enriched[1].positive_words
    /\ art.negative_words = art.enriched[1].negative_words

\* the toggle was read as disabling, or the extraction loop has passed every
\* article: each one that came without content was handed to extract_content
ExtractionOver ==
    \/ extract_flag.read /\ ~ExtractEnabled(extract_flag.val)
    \/ \A i \in 1..Len(articles) :
         articles[i].orig = "" => articles[i].fetched # "no"

\* C28: a step that sends the batch POST of a source is taken only when the
\* enricher has run on every article the scraper returned and the five
\* sentiment fields of each hold that article's own result, and, unless the
\* toggle disables it, extraction has been tried for every article that came
\* without content; what is sent is these articles, so a placeholder is sent
\* only where the enricher returned it.
C28_PostAfterEnrichment ==
    [][pc' = "posting" =>
         /\ Urls(articles) = returned
         /\ \A i \in 1..Len(articles) : HoldsOwnResult(articles[i])
         /\ ExtractionOver
         /\ inflight' = Payload(articles)]_vars

\* C28 witness: a batch of two articles is being posted, the first with the
\* enricher's positive result, the second with the content extracted for it.
C28_Witness ==
    /\ pc = "posting"
    /\ Len(inflight) = 2
    /\ inflight[1].sentimentLabel = "positive"
    /\ inflight[1].positiveWords # <<>>
    /\ inflight[2].sentimentLabel = "neutral"
    /\ inflight[2].content = "body"

\* the href may be an article's: 80 characters or more, no blocklisted fragment
Qualifies(href) == HrefLen(href) >= 80 /\ ~Blocked(href)

\* the positions of the qualifying links of the container
Qualifying == { i \in 1..Len(called.links) : Qualifies(called.links[i]) }

\* the first of the longest qualifying links
FirstLongest ==
    CHOOSE i \in Qualifying :
        \A j \in Qualifying :
            \/ HrefLen(called.links[j]) < HrefLen(called.links[i])
            \/ HrefLen(called.links[j]) = HrefLen(called.links[i]) /\ j >= i

\* the href names its scheme and host
HasOrigin(href) == href # <<>> /\ Head(href).c = Origin

\* the href resolved against the site's origin
Resolved(href) ==
    IF HasOrigin(href) THEN href
    ELSE IF Head(href).c = "/" THEN Concat(Rep(Origin, 1), href)
    ELSE Concat(Concat(Rep(Origin, 1), Rep("/", 1)), href)

\* C29 as claimed: the link chosen is the first of the longest hrefs of 80
\* characters or more that hold no blocklisted fragment; the article's URL is
\* that href, resolved against the site's origin when it is relative; a
\* container without such a link gives no article.
C29_LongestQualifyingLink ==
    cpc = "done" /\ called.fn = "_extract_article_from_element" =>
        IF Qualifying = {} THEN ret.none
        ELSE /\ ~ret.none
             /\ ret.longest_link = FirstLongest
             /\ ret.url = Resolved(called.links[FirstLongest])

\* C30 as claimed: the added and skipped values create_articles_batch hands
\* back are integers whatever the backend replied, and the accumulation of a
\* source's result never fails.
C30_BatchCountsAreIntegers ==
    /\ pc = "accumulate" => result.added.t = "int" /\ result.skipped.t = "int"
    /\ ~(pc = "except" /\ result # NoResult /\ ~result.raised)
====
